---- MODULE Spec2Model ----
(***************************************************************************)
(* A model of the OpenStreetMap MCP server: the upstream client            *)
(* (osm_mcp_server/client.py), the application lifespan                    *)
(* (osm_mcp_server/instance.py) and the tools built on them                *)
(* (osm_mcp_server/tools/*.py, openstreetmap_mcp/tools/*.py).              *)
(*                                                                         *)
(* The upstream services are the environment: every response is chosen     *)
(* nondeterministically from a small set (status 200 with a body, a        *)
(* non-success status, or no response at all, status 0, which stands for   *)
(* a transport error raised by the HTTP library).                          *)
(***************************************************************************)
EXTENDS Integers, Sequences, FiniteSets, TLC

VARIABLES
    session,          \* OSMClient.session: NoSession, or the index in `sessions` of the handle
    sessions,         \* every aiohttp.ClientSession created so far: "open" or "closed"
    cache,            \* OSMClient.cache
    requests,         \* the upstream requests sent so far, in order, with the status answered
    warnings,         \* the messages given to ctx.warning so far, in order
    progress,         \* the (current, total) pairs given to ctx.report_progress so far
    lifespan,         \* position of app_lifespan
    disconnects,      \* number of calls of OSMClient.disconnect made by app_lifespan
    tool,             \* the operation or tool being invoked ("none" when idle)
    pc,               \* position inside the invocation
    args,             \* arguments of the invocation
    i,                \* loop index of the invocation
    locals,           \* local variables of the invocation
    ret               \* outcome of the last finished invocation

vars == <<session, sessions, cache, requests, warnings, progress, lifespan, disconnects,
          tool, pc, args, i, locals, ret>>

clientVars == <<session, sessions, cache>>
ctxVars == <<warnings, progress>>
lifespanVars == <<lifespan, disconnects>>
toolVars == <<tool, pc, args, i, locals>>

(***************************************************************************)
(* Bounds of the model.                                                    *)
(***************************************************************************)
MaxSessions == 3      \* sessions created in one behaviour
MaxRequests == 2      \* requests sent in one behaviour of SpecClient / SpecLifespan
MaxFailures == 2      \* failing Overpass answers in one behaviour of SpecLifespan

(***************************************************************************)
(* Values.                                                                 *)
(***************************************************************************)
None == "None"
NoSession == 0       \* OSMClient.session is None
NoArgs == [none |-> TRUE]
NoLocals == [none |-> TRUE]
NoRet == [kind |-> "none"]
NoLifespan == [pc |-> "none", raised |-> None]     \* app_lifespan is not running

Return(v) == [kind |-> "return", value |-> v]
Raise(e) == [kind |-> "raise", error |-> e]

NotConnected == "OSM client not connected"
SessionClosed == "Session is closed"
TransportError == "transport error"

UserAgent == "OSM-MCP-Server/1.0"

\* the statuses an upstream answer is drawn from; 0 = no answer (transport error)
Statuses == {200, 500, 0}

(***************************************************************************)
(* OSMClient                                                               *)
(***************************************************************************)
ClientInit ==
    /\ session = NoSession
    /\ sessions = <<>>
    /\ cache = {}

\* aiohttp.ClientSession(): a new open session, returned as its index
NewSession == Append(sessions, "open")

clientConnect ==
    /\ sessions' = NewSession
    /\ session' = Len(sessions')
    /\ cache' = cache

clientDisconnect ==
    /\ sessions' = IF session # NoSession
                   THEN [sessions EXCEPT ![session] = "closed"]
                   ELSE sessions
    /\ UNCHANGED <<session, cache>>

\* a request that is sent a second time when the first answer is a failure
SessionRequestRetrying(s, req, resp, failure) ==
    LET exchange == [req EXCEPT !.status = resp.status]
    IN  IF sessions[s] = "closed"
        THEN [out |-> Raise(SessionClosed), sent |-> <<>>]
        ELSE IF resp.status = 0
        THEN [out |-> Raise(TransportError), sent |-> <<exchange, exchange>>]
        ELSE IF resp.status = 200
        THEN [out |-> Return(resp.body), sent |-> <<exchange>>]
        ELSE [out |-> Raise(failure), sent |-> <<exchange, exchange>>]

\* A request on session s: a closed aiohttp session raises before anything is
\* sent; otherwise the request goes out and the answer decides.
\*   req      the request as sent
\*   resp     the upstream answer [status, body]
\*   failure  the message of the exception raised on a non-200 status
\* The outcome carries in `sent` the requests sent (none or one), each with
\* the status of its answer.
SessionRequest(s, req, resp, failure) ==
    LET exchange == [req EXCEPT !.status = resp.status]
    IN  IF sessions[s] = "closed"
        THEN [out |-> Raise(SessionClosed), sent |-> <<>>]
        ELSE IF resp.status = 0
        THEN [out |-> Raise(TransportError), sent |-> <<exchange>>]
        ELSE IF resp.status = 200
        THEN [out |-> Return(resp.body), sent |-> <<exchange>>]
        ELSE [out |-> Raise(failure), sent |-> <<exchange>>]

Req(op, service, headers, mode, params) ==
    [op |-> op, service |-> service, session |-> session,
     headers |-> headers, mode |-> mode, params |-> params, status |-> 0]

\* data.get("elements", []) applied to the body of a successful answer
Elements(o) ==
    IF o.out.kind = "return"
    THEN [o EXCEPT !.out = Return(IF "elements" \in DOMAIN o.out.value
                                  THEN o.out.value.elements
                                  ELSE <<>>)]
    ELSE o

geocode(query, resp) ==
    IF session = NoSession
    THEN [out |-> Raise(NotConnected), sent |-> <<>>]
    ELSE SessionRequest(session,
                        Req("geocode", "nominatim", {UserAgent}, None,
                            [q |-> query, format |-> "json", limit |-> 5]),
                        resp, "Failed to geocode")

client_reverse_geocode(lat, lon, resp) ==
    IF session = NoSession
    THEN [out |-> Raise(NotConnected), sent |-> <<>>]
    ELSE SessionRequest(session,
                        Req("reverse_geocode", "nominatim", {UserAgent}, None,
                            [lat |-> lat, lon |-> lon, format |-> "json"]),
                        resp, "Failed to reverse geocode")

get_route(mode, steps, overview, annotations, resp) ==
    IF session = NoSession
    THEN [out |-> Raise(NotConnected), sent |-> <<>>]
    ELSE SessionRequest(session,
                        Req("get_route", "osrm", {}, mode,
                            [overview |-> overview, geometries |-> "geojson",
                             steps |-> steps, annotations |-> annotations]),
                        resp, "Failed to get route")

\* d degrees in the unit of the coordinates, 1e-5 degree
Degrees(d) == d * 100000

\* math.cos(math.radians(lat)) as m * 10^e, for the latitudes of the model:
\* below one degree, 60 degrees and the poles.  At a pole the argument is
\* the double nearest to pi/2 and its cosine is 6.12e-17, not 0.
cos_radians(lat) ==
    IF lat \in {Degrees(90), Degrees(-90)} THEN [m |-> 612, e |-> -19]
    ELSE IF lat \in {Degrees(60), Degrees(-60)} THEN [m |-> 500, e |-> -3]
    ELSE [m |-> 1000, e |-> -3]

\* lines 98-106: the box is lat +- lat_delta, lon +- lon_delta, with
\* lat_delta in 1e-5 degree and lon_delta = m * 10^e degrees
bounding_box(lat, lon, radius) ==
    LET cos == cos_radians(lat)
    IN  [lat |-> lat, lon |-> lon,
         lat_delta |-> (radius * 100) \div 111,
         lon_delta |-> [m |-> (radius * 100000) \div (111 * cos.m), e |-> -cos.e - 8]]

get_nearby_pois(lat, lon, radius, categories, resp) ==
    IF session = NoSession
    THEN [out |-> Raise(NotConnected), sent |-> <<>>]
    ELSE IF cos_radians(lat).m = 0
    THEN [out |-> Raise("ZeroDivisionError"), sent |-> <<>>]
    ELSE Elements(SessionRequest(session,
                         Req("get_nearby_pois", "overpass", {}, None,
                             [lat |-> lat, lon |-> lon, radius |-> radius,
                              bbox |-> bounding_box(lat, lon, radius),
                              categories |-> IF categories = <<>>
                                             THEN <<"amenity", "shop", "tourism", "leisure">>
                                             ELSE categories]),
                         resp, "Failed to get nearby POIs"))

search_features_by_category(bbox, category, subcategories, resp) ==
    IF session = NoSession
    THEN [out |-> Raise(NotConnected), sent |-> <<>>]
    ELSE Elements(SessionRequest(session,
                         Req("search_features_by_category", "overpass", {}, None,
                             [bbox |-> bbox, category |-> category,
                              subcategories |-> subcategories]),
                         resp, "Failed to search features by category"))

(***************************************************************************)
(* SpecClient: a caller makes any sequence of connect / disconnect /       *)
(* operation calls on one OSMClient.                                       *)
(***************************************************************************)
NoBody == [none |-> TRUE]
Failures == {[status |-> st, body |-> NoBody] : st \in Statuses \ {200}}
HttpFailures == {[status |-> st, body |-> NoBody] : st \in Statuses \ {200, 0}}

\* answers of the geocoder, the reverse geocoder, the router and Overpass
PlaceBodies == {[display_name |-> "Main St"], [osm_id |-> 1]}
GeocodeResponses == Failures \cup {[status |-> 200, body |-> b] : b \in {<<>>, <<[lat |-> "1", lon |-> "2"]>>}}
ReverseResponses == Failures \cup {[status |-> 200, body |-> b] : b \in PlaceBodies}
PlainRouteResponses == Failures \cup {[status |-> 200, body |-> [routes |-> <<>>]]}
PlainOverpassResponses == Failures \cup {[status |-> 200, body |-> b] : b \in {NoBody, [elements |-> <<>>]}}

Modes == {"car", "bike", "foot", "teleport"}

Idle ==
    /\ tool = "none"
    /\ pc = "idle"
    /\ args = NoArgs
    /\ i = 0
    /\ locals = NoLocals
    /\ ret = NoRet

InitClient ==
    /\ ClientInit
    /\ requests = <<>>
    /\ warnings = <<>>
    /\ progress = <<>>
    /\ lifespan = NoLifespan
    /\ disconnects = 0
    /\ Idle

Connect ==
    /\ Len(sessions) < MaxSessions
    /\ clientConnect
    /\ UNCHANGED <<requests, ctxVars, lifespanVars, toolVars, ret>>

Disconnect ==
    /\ clientDisconnect
    /\ UNCHANGED <<requests, ctxVars, lifespanVars, toolVars, ret>>

\* a call that stores its outcome in the client's cache
ClientCallCaching(op, o) ==
    /\ Len(requests) < MaxRequests
    /\ requests' = requests \o o.sent
    /\ tool' = op
    /\ ret' = o.out
    /\ cache' = cache \cup {<<op, o.out>>}
    /\ UNCHANGED <<session, sessions, ctxVars, lifespanVars, pc, args, i, locals>>

\* one call of a client operation with outcome o
ClientCall(op, o) ==
    /\ Len(requests) < MaxRequests
    /\ requests' = requests \o o.sent
    /\ tool' = op
    /\ ret' = o.out
    /\ UNCHANGED <<clientVars, ctxVars, lifespanVars, pc, args, i, locals>>

CallGeocode == \E resp \in GeocodeResponses : ClientCall("geocode", geocode("q", resp))
CallReverseGeocode == \E resp \in ReverseResponses :
    ClientCall("reverse_geocode", client_reverse_geocode(1, 2, resp))
CallGetRoute == \E mode \in Modes, resp \in PlainRouteResponses :
    ClientCall("get_route", get_route(mode, FALSE, "overview", TRUE, resp))
CallGetNearbyPois == \E resp \in PlainOverpassResponses :
    ClientCall("get_nearby_pois", get_nearby_pois(1, 2, 1000, <<>>, resp))
CallSearchFeatures == \E resp \in PlainOverpassResponses :
    ClientCall("search_features_by_category",
               search_features_by_category(<<0, 0, 1, 1>>, "amenity", <<>>, resp))

ClientOperation ==
    \/ CallGeocode
    \/ CallReverseGeocode
    \/ CallGetRoute
    \/ CallGetNearbyPois
    \/ CallSearchFeatures

NextClient ==
    \/ Connect
    \/ Disconnect
    \/ ClientOperation

SpecClient == InitClient /\ [][NextClient]_vars

\* connect() has not run, or disconnect() has run since the last connect()
Disconnected == session = NoSession \/ sessions[session] = "closed"

\* C1: every client operation invoked before connect() or after disconnect()
\* fails with the 'not connected' condition and issues no upstream request.
C1_NotConnected ==
    [][(ClientOperation /\ Disconnected)
        => (ret'.kind = "raise" /\ ret'.error = NotConnected /\ requests' = requests)]_vars

(***************************************************************************)
(* app_lifespan (instance.py)                                              *)
(*     osm_client = OSMClient()                                            *)
(*     try:                                                                *)
(*         await osm_client.connect()                                      *)
(*         yield AppContext(osm_client=osm_client)                         *)
(*     finally:                                                            *)
(*         await osm_client.disconnect()                                   *)
(* lifespan.pc: "connect" (client constructed, inside try), "serving"      *)
(* (suspended at the yield: the server runs with the context), "finally",  *)
(* "done".  lifespan.raised names the exception that is propagating.       *)
(***************************************************************************)
InitLifespan ==
    /\ ClientInit
    /\ requests = <<>>
    /\ warnings = <<>>
    /\ progress = <<>>
    /\ lifespan = [pc |-> "connect", raised |-> None]
    /\ disconnects = 0
    /\ Idle

\* a lifespan whose connect() is outside the try: an exception of connect()
\* skips the finally
LifespanConnectOutsideTry ==
    /\ lifespan.pc = "connect"
    /\ \/ /\ clientConnect
          /\ lifespan' = [pc |-> "serving", raised |-> None]
       \/ /\ UNCHANGED clientVars
          /\ lifespan' = [pc |-> "done", raised |-> "connect"]
    /\ UNCHANGED <<requests, ctxVars, disconnects, toolVars, ret>>

\* await osm_client.connect(): returns, or raises (session stays None)
LifespanConnect ==
    /\ lifespan.pc = "connect"
    /\ \/ /\ clientConnect
          /\ lifespan' = [pc |-> "serving", raised |-> None]
       \/ /\ UNCHANGED clientVars
          /\ lifespan' = [pc |-> "finally", raised |-> "connect"]
    /\ UNCHANGED <<requests, ctxVars, disconnects, toolVars, ret>>

\* the server body leaves the `async with`: normally, or with an exception
\* that is thrown into the generator at the yield
LifespanExit ==
    /\ lifespan.pc = "serving"
    /\ pc \in {"idle", "done"}
    /\ \E r \in {None, "body"} : lifespan' = [pc |-> "finally", raised |-> r]
    /\ UNCHANGED <<clientVars, requests, ctxVars, disconnects, toolVars, ret>>

\* finally: await osm_client.disconnect()
LifespanFinally ==
    /\ lifespan.pc = "finally"
    /\ clientDisconnect
    /\ disconnects' = disconnects + 1
    /\ lifespan' = [lifespan EXCEPT !.pc = "done"]
    /\ UNCHANGED <<requests, ctxVars, toolVars, ret>>

\* the application context exists (the lifespan is suspended at its yield);
\* ctx.request_context.lifespan_context.osm_client is the client
Serving == lifespan.pc = "serving"

(***************************************************************************)
(* Tool invocations.  A tool runs from its start to "done"; its awaits     *)
(* are the steps.  One invocation is in progress at a time.                *)
(***************************************************************************)
ToolStart(t, a, l) ==
    /\ Serving
    /\ pc \in {"idle", "done"}
    /\ tool' = t
    /\ args' = a
    /\ i' = 0
    /\ locals' = l

\* the invocation goes on at position p
ToolGoto(p) ==
    /\ pc' = p
    /\ ret' = NoRet

\* the invocation ends: it returns a value or raises
ToolFinish(out) ==
    /\ pc' = "done"
    /\ ret' = out

(***************************************************************************)
(* geocode_address, reverse_geocode (tools/geocoding.py)                   *)
(***************************************************************************)
\* float(s) for the strings the geocoder answers with
ParseFloat(str) ==
    CASE str = "1" -> 1
      [] str = "2" -> 2
      [] OTHER -> None

RECURSIVE EnhanceResults(_)
EnhanceResults(results) ==
    IF results = <<>> THEN <<>>
    ELSE LET result == Head(results)
             enhanced ==
                 IF "lat" \in DOMAIN result /\ "lon" \in DOMAIN result
                 THEN [lat |-> result.lat, lon |-> result.lon,
                       coordinates |-> [latitude |-> ParseFloat(result.lat),
                                        longitude |-> ParseFloat(result.lon)]]
                 ELSE result
         IN  <<enhanced>> \o EnhanceResults(Tail(results))

geocode_address(address, resp) ==
    LET o == geocode(address, resp)
    IN  /\ ToolStart("geocode_address", [address |-> address], NoLocals)
        /\ requests' = requests \o o.sent
        /\ ToolFinish(IF o.out.kind = "return"
                      THEN Return(EnhanceResults(o.out.value))
                      ELSE o.out)
        /\ UNCHANGED <<clientVars, ctxVars, lifespanVars>>

reverse_geocode(latitude, longitude, resp) ==
    LET o == client_reverse_geocode(latitude, longitude, resp)
    IN  /\ ToolStart("reverse_geocode", [latitude |-> latitude, longitude |-> longitude],
                     NoLocals)
        /\ requests' = requests \o o.sent
        /\ ToolFinish(o.out)
        /\ UNCHANGED <<clientVars, ctxVars, lifespanVars>>

(***************************************************************************)
(* Python values.  An optional number is Null (None) or Some(n).  A dict   *)
(* is a function on its keys; the empty dict has the empty domain.         *)
(* Coordinates are integers, in units of 1e-5 degree; distances are in     *)
(* centimetres; round(x, 1) of a distance gives decimetres.                *)
(***************************************************************************)
Null == <<>>
Some(v) == <<v>>
EmptyDict == [k \in {} |-> None]
Get(d, k, default) == IF k \in DOMAIN d THEN d[k] ELSE default
GetNum(d, k) == IF k \in DOMAIN d THEN Some(d[k]) ELSE Null
Min(a, b) == IF a <= b THEN a ELSE b
Abs(a) == IF a < 0 THEN -a ELSE a

\* round(x, 1) of x = n/d >= 0, in tenths
RoundTenths(n, d) == (20 * n + d) \div (2 * d)

\* a distance that keeps the sign of the difference
haversine_signed(lat1, lon1, lat2, lon2) ==
    LET arc == IF lon1 = lon2 THEN lat2 - lat1 ELSE lon2 - lon1
    IN  (arc * 11119 + 50) \div 100

\* utils.haversine for two points on one meridian, or two points on the
\* equator: R * c with c the difference in radians; 1e-5 degree of arc is
\* 111.19 cm.  The result is in centimetres.
haversine(lat1, lon1, lat2, lon2) ==
    LET arc == IF lon1 = lon2 THEN Abs(lat2 - lat1) ELSE Abs(lon2 - lon1)
    IN  (arc * 11119 + 50) \div 100

\* a sequence of [key, item] sorted by key: list.sort(key=...), stable.
\* A key is [inf, v]: float("inf") or the number v.
KeyLess(a, b) == ~a.inf /\ (b.inf \/ a.v < b.v)

\* an insertion that puts x before the items of equal key
RECURSIVE InsertBeforeEqual(_, _)
InsertBeforeEqual(sorted, x) ==
    IF sorted = <<>> THEN <<x>>
    ELSE IF ~KeyLess(Head(sorted).key, x.key) THEN <<x>> \o sorted
    ELSE <<Head(sorted)>> \o InsertBeforeEqual(Tail(sorted), x)

RECURSIVE InsertByKey(_, _)
InsertByKey(sorted, x) ==
    IF sorted = <<>> THEN <<x>>
    ELSE IF KeyLess(x.key, Head(sorted).key) THEN <<x>> \o sorted
    ELSE <<Head(sorted)>> \o InsertByKey(Tail(sorted), x)

RECURSIVE SortByKey(_)
SortByKey(seq) ==
    IF seq = <<>> THEN <<>>
    ELSE InsertByKey(SortByKey(SubSeq(seq, 1, Len(seq) - 1)), seq[Len(seq)])

Items(seq) == [k \in 1..Len(seq) |-> seq[k].item]

RECURSIVE Sum(_)
Sum(seq) == IF seq = <<>> THEN 0 ELSE Head(seq) + Sum(Tail(seq))

RECURSIVE Minimum(_)
Minimum(seq) == IF Len(seq) = 1 THEN seq[1] ELSE Min(Head(seq), Minimum(Tail(seq)))

(***************************************************************************)
(* Overpass elements.  The coordinates a tool takes from an element        *)
(* (analysis.py 74-84 and 244-254).                                        *)
(***************************************************************************)
feature_coords(feature) ==
    IF Get(feature, "type", None) = "node"
    THEN [latitude |-> GetNum(feature, "lat"), longitude |-> GetNum(feature, "lon")]
    ELSE IF "center" \in DOMAIN feature
    THEN [latitude |-> GetNum(feature.center, "lat"),
          longitude |-> GetNum(feature.center, "lon")]
    ELSE EmptyDict

(***************************************************************************)
(* analyze_neighborhood (tools/analysis.py 129-350)                        *)
(***************************************************************************)
neighborhood_categories ==
    <<"groceries", "restaurants", "healthcare", "education", "public_transport",
      "parks", "sports", "entertainment", "shopping", "services">>

\* lines 237-271: feature_list and distances, or the TypeError that
\* haversine raises on a None coordinate
neighborhood_features(features, latitude, longitude) ==
    LET located == SelectSeq(features, LAMBDA feature : DOMAIN feature_coords(feature) # {})
        entry(feature) ==
            LET tags == Get(feature, "tags", EmptyDict)
                coords == feature_coords(feature)
                distance == haversine(latitude, longitude,
                                      coords.latitude[1], coords.longitude[1])
            IN  [cm |-> distance,
                 item |-> [id |-> Get(feature, "id", None),
                           name |-> Get(tags, "name", "Unnamed"),
                           type |-> Get(feature, "type", None),
                           coordinates |-> coords,
                           distance |-> (distance + 5) \div 10,
                           tags |-> tags]]
    IN  IF \E k \in DOMAIN located :
              \/ feature_coords(located[k]).latitude = Null
              \/ feature_coords(located[k]).longitude = Null
        THEN [ok |-> FALSE, error |-> "TypeError"]
        ELSE [ok |-> TRUE,
              feature_list |-> [k \in DOMAIN located |-> entry(located[k]).item],
              distances |-> [k \in DOMAIN located |-> entry(located[k]).cm]]

\* a score whose count part is not capped at 5 points
category_score_uncapped(count, min_distance, radius) ==
    IF count = 0 THEN 0
    ELSE count * radius + (5 * radius - Min(min_distance[1], radius) * 5)

\* lines 283-289: category_score, as the numerator of a fraction over radius
\* (min_distance and radius in the same unit):
\*     count_score     = min(count / 5, 1) * 5
\*     proximity_score = 5 - min(min_distance / radius, 1) * 5
category_score(count, min_distance, radius) ==
    IF count = 0 THEN 0
    ELSE Min(count, 5) * radius + (5 * radius - Min(min_distance[1], radius) * 5)

\* an entry that keeps the first ten features in upstream order
neighborhood_category_unsorted(feature_list, distances, radius) ==
    LET count == Len(feature_list)
        total == Sum(distances)
        min_distance == IF count > 0 THEN Some(Minimum(distances)) ELSE Null
        radius_cm == radius * 100
    IN  [result |->
            [count |-> count,
             features |-> SubSeq(feature_list, 1, Min(10, count)),
             metrics |->
                [total_count |-> count,
                 avg_distance |-> IF count > 0 /\ total # 0
                                  THEN Some(RoundTenths(total, count * 100))
                                  ELSE Null,
                 min_distance |-> IF min_distance # Null /\ min_distance[1] # 0
                                  THEN Some(RoundTenths(min_distance[1], 100))
                                  ELSE Null]],
         score_num |-> category_score(count, min_distance, radius_cm),
         score_den |-> radius_cm]

\* lines 273-302: the entry of results and the score of one category.
\* The score is kept exact, as score_num / score_den.
neighborhood_category(feature_list, distances, radius) ==
    LET sorted == Items(SortByKey([k \in 1..Len(feature_list) |->
                        [key |-> [inf |-> FALSE, v |-> feature_list[k].distance],
                         item |-> feature_list[k]]]))
        count == Len(sorted)
        total == Sum(distances)
        min_distance == IF count > 0 THEN Some(Minimum(distances)) ELSE Null
        radius_cm == radius * 100
    IN  [result |->
            [count |-> count,
             features |-> SubSeq(sorted, 1, Min(10, count)),
             metrics |->
                [total_count |-> count,
                 avg_distance |-> IF count > 0 /\ total # 0
                                  THEN Some(RoundTenths(total, count * 100))
                                  ELSE Null,
                 min_distance |-> IF min_distance # Null /\ min_distance[1] # 0
                                  THEN Some(RoundTenths(min_distance[1], 100))
                                  ELSE Null]],
         score_num |-> category_score(count, min_distance, radius_cm),
         score_den |-> radius_cm]

\* lines 315-329
RECURSIVE walking_count(_)
walking_count(features) ==
    IF features = <<>> THEN 0
    ELSE (IF Head(features).distance <= 5000 THEN 1 ELSE 0) + walking_count(Tail(features))

RECURSIVE walkability(_)
walkability(results) ==
    IF results = <<>> THEN [amenities |-> 0, categories |-> 0]
    ELSE LET rest == walkability(Tail(results))
             data == Head(results).data
             n == IF "metrics" \in DOMAIN data THEN walking_count(data.features) ELSE 0
         IN  IF n > 0
             THEN [amenities |-> rest.amenities + n, categories |-> rest.categories + 1]
             ELSE rest

analyze_neighborhood_start(latitude, longitude, radius) ==
    /\ ToolStart("analyze_neighborhood",
                 [latitude |-> latitude, longitude |-> longitude, radius |-> radius],
                 [address_info |-> EmptyDict, results |-> <<>>, scores |-> <<>>,
                  session |-> NoSession, features |-> <<>>, error |-> None])
    /\ ToolGoto("reverse")
    /\ UNCHANGED <<clientVars, requests, ctxVars, lifespanVars>>

\* line 162: address_info = await osm_client.reverse_geocode(...)
analyze_neighborhood_reverse(resp) ==
    LET o == client_reverse_geocode(args.latitude, args.longitude, resp)
    IN  /\ tool = "analyze_neighborhood" /\ pc = "reverse"
        /\ requests' = requests \o o.sent
        /\ IF o.out.kind = "raise"
           THEN /\ ToolFinish(o.out)
                /\ UNCHANGED locals
           ELSE /\ ToolGoto("loop")
                /\ locals' = [locals EXCEPT !.address_info = o.out.value]
        /\ UNCHANGED <<clientVars, ctxVars, lifespanVars, tool, args, i>>

\* a loop that reports no progress
analyze_neighborhood_progress_silent ==
    /\ tool = "analyze_neighborhood" /\ pc = "loop"
    /\ i < Len(neighborhood_categories)
    /\ ToolGoto("session")
    /\ UNCHANGED <<clientVars, requests, ctxVars, lifespanVars, tool, args, i, locals>>

\* line 192: await ctx.report_progress(i, len(categories))
analyze_neighborhood_progress ==
    /\ tool = "analyze_neighborhood" /\ pc = "loop"
    /\ i < Len(neighborhood_categories)
    /\ progress' = Append(progress, <<i, Len(neighborhood_categories)>>)
    /\ ToolGoto("session")
    /\ UNCHANGED <<clientVars, requests, warnings, lifespanVars, tool, args, i, locals>>

\* line 227: async with aiohttp.ClientSession() as session
analyze_neighborhood_session ==
    /\ tool = "analyze_neighborhood" /\ pc = "session"
    /\ sessions' = NewSession
    /\ locals' = [locals EXCEPT !.session = Len(sessions')]
    /\ ToolGoto("post")
    /\ UNCHANGED <<session, cache, requests, ctxVars, lifespanVars, tool, args, i>>

\* lines 228-234: the query is posted on the session just opened
analyze_neighborhood_post(resp) ==
    LET name == neighborhood_categories[i + 1]
        o == Elements(SessionRequest(locals.session,
                                     [op |-> "analyze_neighborhood", service |-> "overpass",
                                      session |-> locals.session, headers |-> {},
                                      mode |-> None, params |-> [category |-> name],
                                      status |-> 0],
                                     resp, "Failed to analyze"))
    IN  /\ tool = "analyze_neighborhood" /\ pc = "post"
        /\ requests' = requests \o o.sent
        /\ IF o.out.kind = "return"
           THEN /\ locals' = [locals EXCEPT !.features = o.out.value, !.error = None]
                /\ UNCHANGED warnings
           ELSE IF o.out.error = TransportError
           THEN /\ locals' = [locals EXCEPT !.error = TransportError]
                /\ UNCHANGED warnings
           ELSE /\ locals' = [locals EXCEPT !.features = <<>>, !.error = None]
                /\ warnings' = Append(warnings, <<"Failed to analyze", name>>)
        /\ ToolGoto("close")
        /\ UNCHANGED <<clientVars, progress, lifespanVars, tool, args, i>>

\* the session is closed on leaving the `async with`; then lines 236-307
analyze_neighborhood_close ==
    LET name == neighborhood_categories[i + 1]
        fl == IF locals.error # None
              THEN [ok |-> FALSE, error |-> locals.error]
              ELSE neighborhood_features(locals.features, args.latitude, args.longitude)
        cat == neighborhood_category(fl.feature_list, fl.distances, args.radius)
    IN  /\ tool = "analyze_neighborhood" /\ pc = "close"
        /\ sessions' = [sessions EXCEPT ![locals.session] = "closed"]
        /\ IF fl.ok
           THEN /\ locals' = [locals EXCEPT
                       !.results = Append(@, [name |-> name, data |-> cat.result]),
                       !.scores = Append(@, [name |-> name, num |-> cat.score_num,
                                             den |-> cat.score_den])]
                /\ UNCHANGED warnings
           ELSE /\ locals' = [locals EXCEPT
                       !.results = Append(@, [name |-> name, data |-> [error |-> fl.error]]),
                       !.scores = Append(@, [name |-> name, num |-> 0, den |-> 1]),
                       !.error = None]
                /\ warnings' = Append(warnings, <<"Error analyzing", name>>)
        /\ i' = i + 1
        /\ ToolGoto("loop")
        /\ UNCHANGED <<session, cache, requests, progress, lifespanVars, tool, args>>

\* sum of the scores n/d of a list, as a fraction over the common
\* denominator den (every score has denominator den or is 0/1)
RECURSIVE ScoreSum(_, _)
ScoreSum(scores, den) ==
    IF scores = <<>> THEN 0
    ELSE (IF Head(scores).den = den THEN Head(scores).num ELSE 0)
         + ScoreSum(Tail(scores), den)

\* lines 309-350
analyze_neighborhood_return ==
    LET den == args.radius * 100
        n == Len(locals.scores)
        w == walkability(locals.results)
    IN  /\ tool = "analyze_neighborhood" /\ pc = "loop"
        /\ i = Len(neighborhood_categories)
        /\ progress' = Append(progress, <<i, Len(neighborhood_categories)>>)
        /\ ToolFinish(Return(
              [location |->
                  [coordinates |-> [latitude |-> args.latitude, longitude |-> args.longitude],
                   address |-> Get(locals.address_info, "display_name", "Unknown location")],
               scores |->
                  [overall |-> IF n = 0 THEN 0
                               ELSE RoundTenths(ScoreSum(locals.scores, den), den * n),
                   walkability |-> Min(w.amenities + w.categories, 10),
                   categories |-> [k \in 1..n |->
                                     [name |-> locals.scores[k].name,
                                      score |-> RoundTenths(locals.scores[k].num,
                                                            locals.scores[k].den)]]],
               categories |-> locals.results,
               analysis_radius |-> args.radius]))
        /\ UNCHANGED <<clientVars, requests, warnings, lifespanVars, tool, args, i, locals>>

(***************************************************************************)
(* explore_area (tools/analysis.py 10-126)                                 *)
(***************************************************************************)
explore_categories ==
    <<"amenity", "shop", "tourism", "leisure", "natural", "historic", "public_transport">>

AddressPlaceholder == [error |-> "Could not retrieve address information"]

\* truthiness of tags.get(category)
Truthy(v) == v # None /\ v # ""

\* lines 64-92: the features of one category grouped by subcategory, in
\* upstream order; `subcategories` is the dict built so far
RECURSIVE explore_group(_, _, _)
explore_group(features, category, subcategories) ==
    IF features = <<>> THEN subcategories
    ELSE LET feature == Head(features)
             tags == Get(feature, "tags", EmptyDict)
             subcategory == Get(tags, category, None)
             place == [id |-> Get(feature, "id", None),
                       name |-> Get(tags, "name", "Unnamed"),
                       coordinates |-> feature_coords(feature),
                       type |-> Get(feature, "type", None),
                       tags |-> tags]
         IN  IF Truthy(subcategory)
             THEN explore_group(Tail(features), category,
                      [sub \in DOMAIN subcategories \cup {subcategory} |->
                          (IF sub \in DOMAIN subcategories THEN subcategories[sub] ELSE <<>>)
                          \o (IF sub = subcategory THEN <<place>> ELSE <<>>)])
             ELSE explore_group(Tail(features), category, subcategories)

\* sum(len(places) for places in category_data.values())
RECURSIVE SumLens(_, _)
SumLens(category_data, keys) ==
    IF keys = {} THEN 0
    ELSE LET sub == CHOOSE k \in keys : TRUE
         IN  Len(category_data[sub]) + SumLens(category_data, keys \ {sub})

\* lines 110-114
RECURSIVE explore_total(_)
explore_total(results) ==
    IF results = <<>> THEN 0
    ELSE SumLens(Head(results).data, DOMAIN Head(results).data)
         + explore_total(Tail(results))

explore_area_start(latitude, longitude, radius) ==
    /\ ToolStart("explore_area",
                 [latitude |-> latitude, longitude |-> longitude, radius |-> radius],
                 [results |-> <<>>, address_info |-> EmptyDict])
    /\ ToolGoto("loop")
    /\ UNCHANGED <<clientVars, requests, ctxVars, lifespanVars>>

\* line 46: await ctx.report_progress(i, len(categories))
explore_area_progress ==
    /\ tool = "explore_area" /\ pc = "loop"
    /\ i < Len(explore_categories)
    /\ progress' = Append(progress, <<i, Len(explore_categories)>>)
    /\ ToolGoto("search")
    /\ UNCHANGED <<clientVars, requests, warnings, lifespanVars, tool, args, i, locals>>

\* an explore_area without the try/except around the search
explore_area_search_unguarded(resp) ==
    LET category == explore_categories[i + 1]
        o == search_features_by_category(<<args.latitude, args.longitude, args.radius>>,
                                         category, <<>>, resp)
    IN  /\ tool = "explore_area" /\ pc = "search"
        /\ requests' = requests \o o.sent
        /\ IF o.out.kind = "return"
           THEN /\ locals' = [locals EXCEPT !.results =
                       Append(@, [name |-> category,
                                  data |-> explore_group(o.out.value, category, EmptyDict)])]
                /\ i' = i + 1
                /\ ToolGoto("loop")
           ELSE /\ ToolFinish(o.out)
                /\ UNCHANGED <<locals, i>>
        /\ UNCHANGED <<clientVars, ctxVars, lifespanVars, tool, args>>

\* lines 49-98: the search of category i, its grouping, and the except
explore_area_search(resp) ==
    LET category == explore_categories[i + 1]
        o == search_features_by_category(<<args.latitude, args.longitude, args.radius>>,
                                         category, <<>>, resp)
    IN  /\ tool = "explore_area" /\ pc = "search"
        /\ requests' = requests \o o.sent
        /\ IF o.out.kind = "return"
           THEN /\ locals' = [locals EXCEPT !.results =
                       Append(@, [name |-> category,
                                  data |-> explore_group(o.out.value, category, EmptyDict)])]
                /\ UNCHANGED warnings
           ELSE /\ locals' = [locals EXCEPT !.results =
                       Append(@, [name |-> category, data |-> EmptyDict])]
                /\ warnings' = Append(warnings, <<"Error fetching", category, o.out.error>>)
        /\ i' = i + 1
        /\ ToolGoto("loop")
        /\ UNCHANGED <<clientVars, progress, lifespanVars, tool, args>>

\* lines 100-104: the best-effort reverse geocode of the center
explore_area_reverse(resp) ==
    LET o == client_reverse_geocode(args.latitude, args.longitude, resp)
    IN  /\ tool = "explore_area" /\ pc = "loop"
        /\ i = Len(explore_categories)
        /\ requests' = requests \o o.sent
        /\ locals' = [locals EXCEPT !.address_info =
                          IF o.out.kind = "return" THEN o.out.value ELSE AddressPlaceholder]
        /\ ToolGoto("return")
        /\ UNCHANGED <<clientVars, ctxVars, lifespanVars, tool, args, i>>

\* lines 106-126
explore_area_return ==
    /\ tool = "explore_area" /\ pc = "return"
    /\ progress' = Append(progress, <<Len(explore_categories), Len(explore_categories)>>)
    /\ ToolFinish(Return(
          [query |-> [latitude |-> args.latitude, longitude |-> args.longitude,
                      radius |-> args.radius],
           address |-> locals.address_info,
           categories |-> locals.results,
           total_features |-> explore_total(locals.results)]))
    /\ UNCHANGED <<clientVars, requests, warnings, lifespanVars, tool, args, i, locals>>

(***************************************************************************)
(* get_route_directions, analyze_commute (tools/routing.py)                *)
(* Distances are in metres and durations in seconds, as OSRM answers;      *)
(* distance_km is kept in hundredths of a kilometre and duration_minutes   *)
(* in tenths of a minute.                                                  *)
(***************************************************************************)
valid_modes == {"car", "bike", "foot"}

\* round(n / d) for n >= 0
Round(n, d) == (2 * n + d) \div (2 * d)

\* the steps of one leg, lines 77-83 and 158-164
RECURSIVE leg_steps(_)
leg_steps(steps) ==
    IF steps = <<>> THEN <<>>
    ELSE LET step == Head(steps)
         IN  <<[instruction |-> Get(Get(step, "maneuver", EmptyDict), "instruction", ""),
                distance |-> GetNum(step, "distance"),
                duration |-> GetNum(step, "duration"),
                name |-> Get(step, "name", "")]>> \o leg_steps(Tail(steps))

RECURSIVE legs_steps(_)
legs_steps(legs) ==
    IF legs = <<>> THEN <<>>
    ELSE leg_steps(Get(Head(legs), "steps", <<>>)) \o legs_steps(Tail(legs))

\* the turn-by-turn directions of a route, lines 74-83 and 155-164
route_directions(route) ==
    IF "legs" \in DOMAIN route THEN legs_steps(route.legs) ELSE <<>>

\* the last candidate
last_route(route_data) == route_data.routes[Len(route_data.routes)]

\* lines 71 and 152: route = route_data["routes"][0]
first_route(route_data) == route_data.routes[1]

\* "routes" in route_data and len(route_data["routes"]) > 0
has_routes(route_data) ==
    "routes" \in DOMAIN route_data /\ Len(route_data.routes) > 0

\* a get_route_directions that passes the mode on as given
get_route_directions_unchecked(mode, steps, overview, annotations, resp) ==
    LET o == get_route(mode, steps, overview, annotations, resp)
        route_data == o.out.value
        route == first_route(route_data)
    IN  /\ ToolStart("get_route_directions",
                     [mode |-> mode, steps |-> steps, overview |-> overview,
                      annotations |-> annotations],
                     IF o.out.kind = "return" THEN [route_data |-> route_data] ELSE NoLocals)
        /\ UNCHANGED warnings
        /\ requests' = requests \o o.sent
        /\ ToolFinish(
              IF o.out.kind = "raise" THEN o.out
              ELSE IF has_routes(route_data)
              THEN Return([summary |-> [distance |-> GetNum(route, "distance"),
                                        duration |-> GetNum(route, "duration"),
                                        mode |-> mode],
                           directions |-> route_directions(route),
                           geometry |-> Get(route, "geometry", None),
                           waypoints |-> Get(route_data, "waypoints", <<>>)])
              ELSE Raise("No route found"))
        /\ UNCHANGED <<clientVars, progress, lifespanVars>>

\* get_route_directions, lines 49-96
get_route_directions(mode, steps, overview, annotations, resp) ==
    LET used == IF mode \notin valid_modes THEN "car" ELSE mode
        o == get_route(used, steps, overview, annotations, resp)
        route_data == o.out.value
        route == first_route(route_data)
    IN  /\ ToolStart("get_route_directions",
                     [mode |-> mode, steps |-> steps, overview |-> overview,
                      annotations |-> annotations],
                     IF o.out.kind = "return" THEN [route_data |-> route_data] ELSE NoLocals)
        /\ warnings' = IF mode \notin valid_modes
                       THEN Append(warnings, <<"Invalid mode", mode>>)
                       ELSE warnings
        /\ requests' = requests \o o.sent
        /\ ToolFinish(
              IF o.out.kind = "raise" THEN o.out
              ELSE IF has_routes(route_data)
              THEN Return([summary |-> [distance |-> GetNum(route, "distance"),
                                        duration |-> GetNum(route, "duration"),
                                        mode |-> used],
                           directions |-> route_directions(route),
                           geometry |-> Get(route, "geometry", None),
                           waypoints |-> Get(route_data, "waypoints", <<>>)])
              ELSE Raise("No route found"))
        /\ UNCHANGED <<clientVars, progress, lifespanVars>>

analyze_commute_start(modes, depart_at) ==
    /\ ToolStart("analyze_commute",
                 [modes |-> modes, depart_at |-> depart_at],
                 [home_info |-> EmptyDict, work_info |-> EmptyDict, commute_options |-> <<>>])
    /\ ToolGoto("home")
    /\ UNCHANGED <<clientVars, requests, ctxVars, lifespanVars>>

\* line 134: home_info = await osm_client.reverse_geocode(home...)
analyze_commute_home(resp) ==
    LET o == client_reverse_geocode("home_latitude", "home_longitude", resp)
    IN  /\ tool = "analyze_commute" /\ pc = "home"
        /\ requests' = requests \o o.sent
        /\ IF o.out.kind = "raise"
           THEN /\ ToolFinish(o.out)
                /\ UNCHANGED locals
           ELSE /\ ToolGoto("work")
                /\ locals' = [locals EXCEPT !.home_info = o.out.value]
        /\ UNCHANGED <<clientVars, ctxVars, lifespanVars, tool, args, i>>

\* line 135: work_info = await osm_client.reverse_geocode(work...)
analyze_commute_work(resp) ==
    LET o == client_reverse_geocode("work_latitude", "work_longitude", resp)
    IN  /\ tool = "analyze_commute" /\ pc = "work"
        /\ requests' = requests \o o.sent
        /\ IF o.out.kind = "raise"
           THEN /\ ToolFinish(o.out)
                /\ UNCHANGED locals
           ELSE /\ ToolGoto("loop")
                /\ locals' = [locals EXCEPT !.work_info = o.out.value]
        /\ UNCHANGED <<clientVars, ctxVars, lifespanVars, tool, args, i>>

\* lines 140-177: the route of modes[i]
analyze_commute_route(resp) ==
    LET mode == args.modes[i + 1]
        o == get_route(mode, FALSE, "overview", TRUE, resp)
        route_data == o.out.value
        route == first_route(route_data)
    IN  /\ tool = "analyze_commute" /\ pc = "loop"
        /\ i < Len(args.modes)
        /\ requests' = requests \o o.sent
        /\ IF o.out.kind = "raise"
           THEN /\ warnings' = Append(warnings, <<"Error getting route", mode, o.out.error>>)
                /\ locals' = [locals EXCEPT !.commute_options =
                       Append(@, [mode |-> mode, error |-> o.out.error])]
           ELSE IF has_routes(route_data)
           THEN /\ UNCHANGED warnings
                /\ locals' = [locals EXCEPT !.commute_options =
                       Append(@, [mode |-> mode,
                                  distance_km |-> Round(Get(route, "distance", 0), 10),
                                  duration_minutes |-> Round(Get(route, "duration", 0), 6),
                                  directions |-> route_directions(route)])]
           ELSE UNCHANGED <<warnings, locals>>
        /\ i' = i + 1
        /\ ToolGoto("loop")
        /\ UNCHANGED <<clientVars, progress, lifespanVars, tool, args>>

\* a key that puts an entry without duration first
commute_key_zero(option) ==
    [inf |-> FALSE, v |-> Get(option, "duration_minutes", 0)]

\* line 180: key=lambda x: x.get("duration_minutes", float("inf"))
commute_key(option) ==
    IF "duration_minutes" \in DOMAIN option
    THEN [inf |-> FALSE, v |-> option.duration_minutes]
    ELSE [inf |-> TRUE, v |-> 0]

\* lines 179-200: the list is sorted in place and returned
analyze_commute_return ==
    LET unsorted == locals.commute_options
        commute_options == Items(SortByKey([k \in 1..Len(unsorted) |->
                               [key |-> commute_key(unsorted[k]), item |-> unsorted[k]]]))
    IN  /\ tool = "analyze_commute" /\ pc = "loop"
        /\ i = Len(args.modes)
        /\ locals' = [locals EXCEPT !.commute_options = commute_options]
        /\ ToolFinish(Return(
              [home |-> [address |-> Get(locals.home_info, "display_name", "Unknown location")],
               work |-> [address |-> Get(locals.work_info, "display_name", "Unknown location")],
               commute_options |-> commute_options,
               fastest_option |-> IF commute_options # <<>>
                                  THEN commute_options[1].mode
                                  ELSE None,
               depart_at |-> args.depart_at]))
        /\ UNCHANGED <<clientVars, requests, ctxVars, lifespanVars, tool, args, i>>

(***************************************************************************)
(* SpecLifespan: the application lifespan with tool invocations made       *)
(* while it is serving.                                                    *)
(***************************************************************************)
\* the Overpass answers to analyze_neighborhood in this specification
EmptyOverpassResponses == Failures \cup {[status |-> 200, body |-> [elements |-> <<>>]]}

Neighborhood ==
    \/ Len(requests) < MaxRequests /\ analyze_neighborhood_start(0, 0, 1000)
    \/ \E resp \in ReverseResponses : analyze_neighborhood_reverse(resp)
    \/ analyze_neighborhood_progress
    \/ analyze_neighborhood_session
    \/ \E resp \in EmptyOverpassResponses :
          /\ resp.status = 200 \/ Len(warnings) < MaxFailures
          /\ analyze_neighborhood_post(resp)
    \/ analyze_neighborhood_close
    \/ analyze_neighborhood_return

NextLifespan ==
    \/ LifespanConnect
    \/ LifespanExit
    \/ LifespanFinally
    \/ Len(requests) < MaxRequests /\ \E resp \in GeocodeResponses : geocode_address("q", resp)
    \/ Len(requests) < MaxRequests /\ \E resp \in ReverseResponses : reverse_geocode(0, 0, resp)
    \/ Neighborhood

SpecLifespan == InitLifespan /\ [][NextLifespan]_vars

OpenSessions == {k \in DOMAIN sessions : sessions[k] = "open"}

\* C2: the client is connected before the context is handed to a tool
\* invocation, and app_lifespan calls disconnect() exactly once when it
\* ends (after a normal end, after an exception of the server body, after an
\* exception of connect()) and not before.
C2_Lifespan ==
    /\ Serving => (session # NoSession /\ sessions[session] = "open")
    /\ tool # "none" => session # NoSession
    /\ lifespan.pc = "done" => disconnects = 1
    /\ lifespan.pc # "done" => disconnects = 0

C2_Witness ==
    /\ lifespan.pc = "done"
    /\ lifespan.raised = "body"
    /\ tool = "geocode_address"
    /\ ret.kind = "return"
    /\ disconnects = 1

\* C3: every upstream request of a tool invocation is sent on the shared
\* session of the client, and while the application serves exactly one
\* session is open.
C3_SingleSession ==
    Serving => /\ \A k \in DOMAIN requests : requests[k].session = session
               /\ Cardinality(OpenSessions) = 1

(***************************************************************************)
(* SpecExplore: one invocation of explore_area while the server serves.    *)
(***************************************************************************)
MaxFeatures == 2      \* features retained in one invocation, and length of one answer

\* the state while the lifespan is suspended at its yield
InitServing ==
    /\ session = 1
    /\ sessions = <<"open">>
    /\ cache = {}
    /\ requests = <<>>
    /\ warnings = <<>>
    /\ progress = <<>>
    /\ lifespan = [pc |-> "serving", raised |-> None]
    /\ disconnects = 0
    /\ Idle

\* a tag dict with the key `key`
Tag(key, value) == [k \in {key} |-> value]

\* the elements Overpass may answer a query for `category` with
Elems(category) ==
    {[type |-> "node", id |-> 1, lat |-> 10, lon |-> 20, tags |-> Tag(category, "a")],
     [type |-> "node", id |-> 2, tags |-> Tag(category, "a")],
     [type |-> "way", id |-> 3, center |-> [lat |-> 10, lon |-> 20], tags |-> Tag(category, "b")],
     [type |-> "way", id |-> 4, tags |-> Tag(category, "a")],
     [type |-> "node", id |-> 5, lat |-> 10, lon |-> 20]}

SeqsUpTo(S, n) == UNION {[1..m -> S] : m \in 0..n}

ExploreResponses(category, n) ==
    HttpFailures \cup {[status |-> 200, body |-> [elements |-> es]] : es \in SeqsUpTo(Elems(category), n)}

NextExplore ==
    \/ pc = "idle" /\ explore_area_start(0, 0, 500)
    \/ explore_area_progress
    \/ /\ tool = "explore_area" /\ pc = "search"
       /\ \E resp \in ExploreResponses(explore_categories[i + 1],
                                        MaxFeatures - explore_total(locals.results)) :
             explore_area_search(resp)
    \/ \E resp \in ReverseResponses : explore_area_reverse(resp)
    \/ explore_area_return

SpecExplore == InitServing /\ [][NextExplore]_vars

ExploreDone == tool = "explore_area" /\ pc = "done"
NCategories == Len(explore_categories)

\* the places returned, as (category index, subcategory, position) triples
ExplorePlaces(categories) ==
    {t \in UNION {{<<k, sub, j>> : j \in 1..MaxFeatures + 1} :
                    <<k, sub>> \in (1..Len(categories)) \X {"a", "b"}} :
        /\ t[2] \in DOMAIN categories[t[1]].data
        /\ t[3] <= Len(categories[t[1]].data[t[2]])}

\* C4: explore_area returns whichever of its seven searches and its reverse
\* geocode fail; a failed category is an empty mapping, a failed reverse
\* geocode gives the placeholder, total_features is the number of places in
\* all the lists returned, and it is 0 when every search failed.
C4_ExploreNeverFails ==
    ExploreDone =>
        /\ ret.kind = "return"
        /\ Len(ret.value.categories) = NCategories
        /\ \A k \in 1..NCategories :
              requests[k].status # 200 => DOMAIN ret.value.categories[k].data = {}
        /\ requests[NCategories + 1].status # 200 => ret.value.address = AddressPlaceholder
        /\ ret.value.total_features = Cardinality(ExplorePlaces(ret.value.categories))
        /\ (\A k \in 1..NCategories : requests[k].status # 200)
              => ret.value.total_features = 0

C4_Witness ==
    /\ ExploreDone
    /\ requests[1].status # 200
    /\ requests[2].status = 200
    /\ requests[NCategories + 1].status # 200
    /\ ret.value.total_features = 2

\* C5: every place explore_area returns has coordinates with a latitude and
\* a longitude that are not null.
C5_NoNullCoordinates ==
    ExploreDone =>
        \A t \in ExplorePlaces(ret.value.categories) :
            LET coords == ret.value.categories[t[1]].data[t[2]][t[3]].coordinates
            IN  /\ DOMAIN coords = {"latitude", "longitude"}
                /\ coords.latitude # Null
                /\ coords.longitude # Null

(***************************************************************************)
(* SpecRouting: one invocation of get_route_directions or analyze_commute  *)
(* while the server serves.                                                *)
(***************************************************************************)
MaxModes == 3         \* length of the modes list given to analyze_commute

\* durations in seconds; 60 and 62 are both 1.0 minute
Durations == {60, 62, 120}
Step == [maneuver |-> [instruction |-> "turn left"], distance |-> 10, duration |-> 5,
         name |-> "Main St"]
Routes ==
    {[distance |-> 1500, duration |-> t, legs |-> <<[steps |-> <<>>]>>] : t \in Durations}
    \cup {[distance |-> 1500]}
RouteResponses ==
    Failures
    \cup {[status |-> 200, body |-> b] : b \in {NoBody, [routes |-> <<>>]}}
    \cup {[status |-> 200, body |-> [routes |-> <<r>>, waypoints |-> <<>>]] : r \in Routes}
DirectionsResponses ==
    RouteResponses
    \cup {[status |-> 200,
           body |-> [routes |-> <<[distance |-> 1500, duration |-> 120,
                                   geometry |-> "geojson",
                                   legs |-> <<[steps |-> <<Step, [distance |-> 20]>>]>>]>>]],
          [status |-> 200,
           body |-> [routes |-> <<[distance |-> 1000, duration |-> 60, geometry |-> "first",
                                   legs |-> <<[steps |-> <<Step>>]>>],
                                  [distance |-> 2000, duration |-> 120, geometry |-> "second",
                                   legs |-> <<[steps |-> <<>>]>>]>>]]}

\* the modes the lists given to analyze_commute are made of
CommuteModes == {"car", "foot", "teleport"}

NextRouting ==
    \/ /\ pc = "idle"
       /\ \E mode \in Modes, steps \in BOOLEAN, resp \in DirectionsResponses :
             get_route_directions(mode, steps, "simplified", FALSE, resp)
    \/ /\ pc = "idle"
       /\ \E modes \in SeqsUpTo(CommuteModes, MaxModes) : analyze_commute_start(modes, None)
    \/ \E resp \in ReverseResponses : analyze_commute_home(resp)
    \/ \E resp \in ReverseResponses : analyze_commute_work(resp)
    \/ \E resp \in RouteResponses : analyze_commute_route(resp)
    \/ analyze_commute_return

SpecRouting == InitServing /\ [][NextRouting]_vars

\* analyze_commute has returned; requests 1 and 2 are the reverse geocodes,
\* request 2 + k is the route of modes[k]
CommuteDone == tool = "analyze_commute" /\ pc = "done" /\ ret.kind = "return"
Succeeded(option) == "error" \notin DOMAIN option

C7_AllFailedNull ==
    CommuteDone =>
        ((\A k \in 1..Len(args.modes) : requests[2 + k].status # 200)
            => ret.value.fastest_option = None)

DurationKey(option) ==
    IF Succeeded(option) THEN <<0, option.duration_minutes>> ELSE <<1, 0>>

RECURSIVE WithKey(_, _)
WithKey(options, key) ==
    IF options = <<>> THEN <<>>
    ELSE (IF DurationKey(Head(options)) = key THEN <<Head(options)>> ELSE <<>>)
         \o WithKey(Tail(options), key)

CommuteSorted(before, after) ==
    /\ Len(after) = Len(before)
    /\ \A j, k \in DOMAIN after :
          j < k => /\ Succeeded(after[k]) => Succeeded(after[j])
                   /\ Succeeded(after[k])
                        => after[j].duration_minutes <= after[k].duration_minutes
    /\ \A k \in DOMAIN before :
          WithKey(after, DurationKey(before[k])) = WithKey(before, DurationKey(before[k]))

\* C8: in commute_options the entries without error are in ascending order
\* of duration, every entry with an error comes after them, and entries of
\* equal key keep the order in which their modes were requested.
C8_CommuteOrder ==
    [][(tool = "analyze_commute" /\ pc = "loop" /\ pc' = "done" /\ ret'.kind = "return")
        => CommuteSorted(locals.commute_options, ret'.value.commute_options)]_vars

C8_Witness ==
    /\ CommuteDone
    /\ args.modes = <<"car", "teleport", "foot">>
    /\ requests[3].status # 200
    /\ Len(ret.value.commute_options) = 3
    /\ ret.value.commute_options[1].mode = "teleport"
    /\ ret.value.commute_options[2].mode = "foot"
    /\ Succeeded(ret.value.commute_options[1])
    /\ Succeeded(ret.value.commute_options[2])
    /\ ret.value.commute_options[1].duration_minutes
         = ret.value.commute_options[2].duration_minutes
    /\ ret.value.commute_options[3].mode = "car"

DirectionsDone == tool = "get_route_directions" /\ pc = "done"

\* C9: get_route_directions given a mode outside {car, bike, foot} emits a
\* warning and requests the route with mode car; the summary.mode returned
\* is always in {car, bike, foot} and is the mode of the upstream request.
C9_DirectionsMode ==
    DirectionsDone =>
        /\ Len(requests) = 1
        /\ requests[1].op = "get_route"
        /\ args.mode \notin valid_modes
              => (warnings = <<<<"Invalid mode", args.mode>>>> /\ requests[1].mode = "car")
        /\ ret.kind = "return"
              => /\ ret.value.summary.mode \in {"car", "bike", "foot"}
                 /\ ret.value.summary.mode = requests[1].mode
                 /\ args.mode \notin {"car", "bike", "foot"} => ret.value.summary.mode = "car"

C9_Witness ==
    /\ DirectionsDone
    /\ args.mode = "teleport"
    /\ ret.kind = "return"
    /\ ret.value.summary.mode = "car"
    /\ Len(ret.value.directions) = 2

\* C10: every route request that reaches the routing upstream carries a
\* mode in {car, bike, foot}.
C10_RouteModeValid ==
    \A k \in DOMAIN requests :
        requests[k].op = "get_route" => requests[k].mode \in {"car", "bike", "foot"}

\* an aggregate tool invocation has ended
AggregateDone ==
    tool \in {"explore_area", "analyze_neighborhood", "analyze_commute"} /\ pc = "done"

\* C11: an invocation of explore_area, analyze_neighborhood or analyze_commute
\* never fails: it ends by returning its result object, whichever of its
\* upstream calls (its reverse geocodes included) fail.
C11_AggregateNeverFails ==
    AggregateDone => ret.kind = "return"

NeighborhoodDone == tool = "analyze_neighborhood" /\ pc = "done" /\ ret.kind = "return"

\* the upstream query of category k failed: it was answered with a
\* non-success status, or not answered at all
CategoryQueryFailed(k) ==
    \E r \in DOMAIN requests :
        /\ requests[r].op = "analyze_neighborhood"
        /\ requests[r].params.category = neighborhood_categories[k]
        /\ requests[r].status # 200

CategoryQueried(k) ==
    \E r \in DOMAIN requests :
        /\ requests[r].op = "analyze_neighborhood"
        /\ requests[r].params.category = neighborhood_categories[k]

\* C12: in the result of analyze_neighborhood every category was queried and
\* has an entry and a score, and a category whose upstream query failed
\* (non-success status or transport error) has score 0 and an entry that
\* records the error.
C12_CategoryFailure ==
    NeighborhoodDone =>
        /\ Len(ret.value.categories) = Len(neighborhood_categories)
        /\ Len(ret.value.scores.categories) = Len(neighborhood_categories)
        /\ \A k \in DOMAIN neighborhood_categories :
              /\ CategoryQueried(k)
              /\ CategoryQueryFailed(k)
                    => /\ ret.value.scores.categories[k].score = 0
                       /\ "error" \in DOMAIN ret.value.categories[k].data

(***************************************************************************)
(* SpecScore: the per-category score of analyze_neighborhood, applied to   *)
(* a count, a minimum distance and a radius (both in centimetres).         *)
(***************************************************************************)
MaxCount == 7         \* number of features of one category

ScoreDistances == {0, 1, 25000, 49999, 50000, 50001, 100000, 150000}
ScoreRadii == {50000, 100000}

\* min(distances) if count > 0 else None
ScoreInputs ==
    {[count |-> count, min_distance |-> IF count > 0 THEN Some(d) ELSE Null, radius |-> radius] :
        count \in 0..MaxCount, d \in ScoreDistances, radius \in ScoreRadii}

InitScore ==
    /\ ClientInit
    /\ requests = <<>>
    /\ warnings = <<>>
    /\ progress = <<>>
    /\ lifespan = NoLifespan
    /\ disconnects = 0
    /\ tool = "category_score"
    /\ pc = "idle"
    /\ args \in ScoreInputs
    /\ i = 0
    /\ locals = NoLocals
    /\ ret = NoRet

ScoreCategory ==
    /\ tool = "category_score" /\ pc = "idle"
    /\ ToolFinish(Return(category_score(args.count, args.min_distance, args.radius)))
    /\ UNCHANGED <<clientVars, requests, ctxVars, lifespanVars, tool, args, i, locals>>

NextScore == ScoreCategory

SpecScore == InitScore /\ [][NextScore]_vars

ScoreDone == tool = "category_score" /\ pc = "done"

\* C13: the score of a category (a fraction over the radius) is 0 exactly
\* when the count is 0, lies in [0, 10], does not decrease when the count
\* grows at the same minimum distance, and does not decrease when the
\* minimum distance shrinks at the same count.
C13_CategoryScore ==
    ScoreDone =>
        /\ ret.value = 0 <=> args.count = 0
        /\ 0 <= ret.value /\ ret.value <= 10 * args.radius
        /\ \A a \in ScoreInputs :
              (a.radius = args.radius /\ a.count >= args.count /\ args.count > 0
                 /\ a.min_distance = args.min_distance)
                => category_score(a.count, a.min_distance, a.radius) >= ret.value
        /\ \A a \in ScoreInputs :
              (a.radius = args.radius /\ a.count = args.count /\ args.count > 0
                 /\ a.min_distance[1] <= args.min_distance[1])
                => category_score(a.count, a.min_distance, a.radius) >= ret.value

C13_Witness ==
    /\ ScoreDone
    /\ args.count = 6
    /\ args.min_distance = Some(0)
    /\ ret.value = 10 * args.radius

(***************************************************************************)
(* suggest_meeting_point (tools/extras.py 436-521)                         *)
(***************************************************************************)
NeedTwoLocations == "Need at least two locations to suggest a meeting point"

\* sum(loc.get(key, 0) for loc in locations)
RECURSIVE SumKey(_, _)
SumKey(locations, key) ==
    IF locations = <<>> THEN 0
    ELSE Get(Head(locations), key, 0) + SumKey(Tail(locations), key)

\* lines 467-468: the mean of the latitudes and of the longitudes
center_point(locations) ==
    [latitude |-> SumKey(locations, "latitude") \div Len(locations),
     longitude |-> SumKey(locations, "longitude") \div Len(locations)]

\* lines 481-490 and 501-510: the venues whose amenity tag is venue_type,
\* in upstream order
RECURSIVE matching_venues(_, _)
matching_venues(venues, venue_type) ==
    IF venues = <<>> THEN <<>>
    ELSE LET venue == Head(venues)
             tags == Get(venue, "tags", EmptyDict)
         IN  (IF Get(tags, "amenity", None) = venue_type
              THEN <<[id |-> Get(venue, "id", None),
                      name |-> Get(tags, "name", "Unnamed Venue"),
                      latitude |-> GetNum(venue, "lat"),
                      longitude |-> GetNum(venue, "lon"),
                      tags |-> tags]>>
              ELSE <<>>)
             \o matching_venues(Tail(venues), venue_type)

\* a result that lists every matching venue
meeting_result_untruncated(center, matching, venue_type) ==
    [center_point |-> center,
     suggested_venues |-> matching,
     venue_type |-> venue_type,
     total_options |-> Len(matching)]

\* lines 513-521
meeting_result(center, matching, venue_type) ==
    [center_point |-> center,
     suggested_venues |-> SubSeq(matching, 1, Min(5, Len(matching))),
     venue_type |-> venue_type,
     total_options |-> Len(matching)]

\* a suggest_meeting_point that accepts a single location
suggest_meeting_point_start_lenient(locations, venue_type) ==
    /\ ToolStart("suggest_meeting_point",
                 [locations |-> locations, venue_type |-> venue_type],
                 IF Len(locations) < 1 THEN NoLocals
                 ELSE [center |-> center_point(locations), venues |-> <<>>,
                       matching_venues |-> <<>>])
    /\ IF Len(locations) < 1
       THEN ToolFinish(Raise(NeedTwoLocations))
       ELSE ToolGoto("first")
    /\ UNCHANGED <<clientVars, requests, ctxVars, lifespanVars>>

\* lines 461-470: the check of the argument and the center
suggest_meeting_point_start(locations, venue_type) ==
    /\ ToolStart("suggest_meeting_point",
                 [locations |-> locations, venue_type |-> venue_type],
                 IF Len(locations) < 2 THEN NoLocals
                 ELSE [center |-> center_point(locations), venues |-> <<>>,
                       matching_venues |-> <<>>])
    /\ IF Len(locations) < 2
       THEN ToolFinish(Raise(NeedTwoLocations))
       ELSE ToolGoto("first")
    /\ UNCHANGED <<clientVars, requests, ctxVars, lifespanVars>>

\* a first query that is followed by the wider one whenever it found
\* fewer than five venues
suggest_meeting_point_first_eager(resp) ==
    LET o == get_nearby_pois(locals.center.latitude, locals.center.longitude, 500,
                             <<"amenity">>, resp)
        matching == matching_venues(o.out.value, args.venue_type)
    IN  /\ tool = "suggest_meeting_point" /\ pc = "first"
        /\ requests' = requests \o o.sent
        /\ IF o.out.kind = "raise"
           THEN /\ ToolFinish(o.out)
                /\ UNCHANGED locals
           ELSE /\ locals' = [locals EXCEPT !.venues = o.out.value,
                                            !.matching_venues = matching]
                /\ IF Len(matching) < 5
                   THEN ToolGoto("second")
                   ELSE ToolFinish(Return(meeting_result(locals.center, matching,
                                                         args.venue_type)))
        /\ UNCHANGED <<clientVars, ctxVars, lifespanVars, tool, args, i>>

\* lines 472-493: the query at 500 m and the filter; the result when some
\* venue matched
suggest_meeting_point_first(resp) ==
    LET o == get_nearby_pois(locals.center.latitude, locals.center.longitude, 500,
                             <<"amenity">>, resp)
        matching == matching_venues(o.out.value, args.venue_type)
    IN  /\ tool = "suggest_meeting_point" /\ pc = "first"
        /\ requests' = requests \o o.sent
        /\ IF o.out.kind = "raise"
           THEN /\ ToolFinish(o.out)
                /\ UNCHANGED locals
           ELSE /\ locals' = [locals EXCEPT !.venues = o.out.value,
                                            !.matching_venues = matching]
                /\ IF matching = <<>>
                   THEN ToolGoto("second")
                   ELSE ToolFinish(Return(meeting_result(locals.center, matching,
                                                         args.venue_type)))
        /\ UNCHANGED <<clientVars, ctxVars, lifespanVars, tool, args, i>>

\* lines 494-521: the query at 1000 m, the filter and the result
suggest_meeting_point_second(resp) ==
    LET o == get_nearby_pois(locals.center.latitude, locals.center.longitude, 1000,
                             <<"amenity">>, resp)
        matching == locals.matching_venues \o matching_venues(o.out.value, args.venue_type)
    IN  /\ tool = "suggest_meeting_point" /\ pc = "second"
        /\ requests' = requests \o o.sent
        /\ IF o.out.kind = "raise"
           THEN /\ ToolFinish(o.out)
                /\ UNCHANGED locals
           ELSE /\ locals' = [locals EXCEPT !.venues = o.out.value,
                                            !.matching_venues = matching]
                /\ ToolFinish(Return(meeting_result(locals.center, matching,
                                                    args.venue_type)))
        /\ UNCHANGED <<clientVars, ctxVars, lifespanVars, tool, args, i>>

(***************************************************************************)
(* SpecMeeting: one invocation of suggest_meeting_point while the server   *)
(* serves.                                                                 *)
(***************************************************************************)
MaxLocations == 3     \* length of the locations list
MaxVenues == 6        \* length of one Overpass answer to a venue query

\* coordinates are multiples of 12, so that the mean of up to four of them
\* is a whole number of units
MeetingLocations == {[latitude |-> 0, longitude |-> 24], [latitude |-> 24]}

VenueTypes == {"cafe", "bar"}

\* the k-th element of an answer
Venue(k, amenity) ==
    IF amenity = "cafe"
    THEN [type |-> "node", id |-> k, lat |-> 12, lon |-> 12,
          tags |-> [amenity |-> "cafe", name |-> "Corner"]]
    ELSE [type |-> "node", id |-> k, tags |-> [amenity |-> amenity]]

VenueLists(n) ==
    UNION {{[k \in 1..m |-> Venue(k, amenities[k])] : amenities \in [1..m -> VenueTypes]} :
             m \in 0..n}

MeetingResponses ==
    Failures
    \cup {[status |-> 200, body |-> NoBody]}
    \cup {[status |-> 200, body |-> [elements |-> venues]] : venues \in VenueLists(MaxVenues)}

NextMeeting ==
    \/ /\ pc = "idle"
       /\ \E locations \in SeqsUpTo(MeetingLocations, MaxLocations), venue_type \in VenueTypes :
             suggest_meeting_point_start(locations, venue_type)
    \/ \E resp \in MeetingResponses : suggest_meeting_point_first(resp)
    \/ \E resp \in MeetingResponses : suggest_meeting_point_second(resp)

SpecMeeting == InitServing /\ [][NextMeeting]_vars

\* C14: suggest_meeting_point called with fewer than two locations fails
\* with the ValueError of its argument check and sends no upstream request.
C14_TwoLocations ==
    (tool = "suggest_meeting_point" /\ Len(args.locations) < 2)
        => /\ pc = "done"
           /\ ret = Raise(NeedTwoLocations)
           /\ requests = <<>>

C14_Witness ==
    /\ tool = "suggest_meeting_point"
    /\ Len(args.locations) = 1
    /\ pc = "done"
    /\ ret = Raise(NeedTwoLocations)
    /\ requests = <<>>

\* the venue carries the amenity tag `venue_type`
HasAmenity(venue, venue_type) ==
    /\ "tags" \in DOMAIN venue
    /\ "amenity" \in DOMAIN venue.tags
    /\ venue.tags.amenity = venue_type

\* the venues of the requested type in an answer, in upstream order
OfType(venues, venue_type) == SelectSeq(venues, LAMBDA v : HasAmenity(v, venue_type))

\* C15: the venue queries of one invocation of suggest_meeting_point: the
\* first is at radius 500, a second one follows exactly when the first
\* returned no venue of the requested type, it is at radius 1000 around the
\* same center, and there is no third.
C15_VenueQueries ==
    [][tool' = "suggest_meeting_point" =>
          /\ Len(requests') <= 2
          /\ \A k \in DOMAIN requests' : requests'[k].op = "get_nearby_pois"
          /\ Len(requests') >= 1 => requests'[1].params.radius = 500
          /\ Len(requests') = 2
                => /\ requests'[2].params.radius = 1000
                   /\ requests'[2].params.lat = requests'[1].params.lat
                   /\ requests'[2].params.lon = requests'[1].params.lon
                   /\ requests'[2].params.categories = requests'[1].params.categories
          /\ Len(requests') > Len(requests) <=> pc \in {"first", "second"}
          /\ (pc = "first" /\ requests'[1].status = 200)
                => (pc' = "second" <=> OfType(locals'.venues, args.venue_type) = <<>>)
          /\ (pc = "first" /\ requests'[1].status # 200) => pc' = "done"
          /\ pc = "second" => (Len(requests') = 2 /\ pc' = "done")]_vars

C15_Witness ==
    /\ tool = "suggest_meeting_point"
    /\ pc = "done"
    /\ Len(requests) = 2
    /\ requests[1].params.radius = 500
    /\ requests[2].params.radius = 1000
    /\ ret.kind = "return"
    /\ ret.value.total_options = 2

MeetingDone == tool = "suggest_meeting_point" /\ pc = "done" /\ ret.kind = "return"

\* C16: in the result of suggest_meeting_point total_options is the number
\* of venues of the requested type in the answer to the last query,
\* suggested_venues are the first min(5, total_options) of them in upstream
\* order, each with amenity = venue_type; so total_options >=
\* length(suggested_venues) and length(suggested_venues) <= 5.
C16_MeetingResult ==
    MeetingDone =>
        LET found == OfType(locals.venues, args.venue_type)
            suggested == ret.value.suggested_venues
        IN  /\ ret.value.total_options = Len(found)
            /\ Len(suggested) = Min(5, ret.value.total_options)
            /\ \A k \in DOMAIN suggested :
                  /\ suggested[k].id = found[k].id
                  /\ suggested[k].tags = found[k].tags
                  /\ suggested[k].tags.amenity = args.venue_type
            /\ ret.value.total_options >= Len(suggested)
            /\ Len(suggested) <= 5

C16_Witness ==
    /\ MeetingDone
    /\ Len(requests) = 2
    /\ ret.value.total_options = 6
    /\ Len(ret.value.suggested_venues) = 5
    /\ ret.value.suggested_venues[5].id = 5

(***************************************************************************)
(* find_nearby_places (tools/search.py 6-88)                               *)
(***************************************************************************)
Max(a, b) == IF a >= b THEN a ELSE b

\* seq[:limit]
Slice(seq, limit) ==
    IF limit >= 0
    THEN SubSeq(seq, 1, Min(limit, Len(seq)))
    ELSE SubSeq(seq, 1, Max(Len(seq) + limit, 0))

\* lines 50-71: the place is added under every requested category it has a
\* tag of
RECURSIVE nearby_add(_, _, _)
nearby_add(results_by_category, place, categories) ==
    IF categories = <<>> THEN results_by_category
    ELSE LET category == Head(categories)
             tags == Get(place, "tags", EmptyDict)
             subcategory == tags[category]
             place_info == [id |-> Get(place, "id", None),
                            name |-> Get(tags, "name", "Unnamed"),
                            latitude |-> GetNum(place, "lat"),
                            longitude |-> GetNum(place, "lon"),
                            tags |-> tags]
             category_data == Get(results_by_category, category, EmptyDict)
             added == [sub \in DOMAIN category_data \cup {subcategory} |->
                          Get(category_data, sub, <<>>)
                          \o (IF sub = subcategory THEN <<place_info>> ELSE <<>>)]
         IN  IF category \in DOMAIN tags
             THEN nearby_add([c \in DOMAIN results_by_category \cup {category} |->
                                 IF c = category THEN added ELSE results_by_category[c]],
                             place, Tail(categories))
             ELSE nearby_add(results_by_category, place, Tail(categories))

\* lines 47-71
RECURSIVE nearby_group(_, _, _)
nearby_group(places, categories, results_by_category) ==
    IF places = <<>> THEN results_by_category
    ELSE nearby_group(Tail(places), categories,
                      nearby_add(results_by_category, Head(places), categories))

\* lines 74-78
RECURSIVE nearby_total(_, _)
nearby_total(results_by_category, keys) ==
    IF keys = {} THEN 0
    ELSE LET category == CHOOSE k \in keys : TRUE
         IN  SumLens(results_by_category[category], DOMAIN results_by_category[category])
             + nearby_total(results_by_category, keys \ {category})

find_nearby_places(latitude, longitude, radius, categories, limit, resp) ==
    LET used == IF categories = <<>>
                THEN <<"amenity", "shop", "tourism", "leisure">>
                ELSE categories
        o == get_nearby_pois(latitude, longitude, radius, used, resp)
        places == o.out.value
        results_by_category == nearby_group(Slice(places, limit), used, EmptyDict)
    IN  /\ ToolStart("find_nearby_places",
                     [latitude |-> latitude, longitude |-> longitude, radius |-> radius,
                      categories |-> categories, limit |-> limit],
                     IF o.out.kind = "return" THEN [places |-> places] ELSE NoLocals)
        /\ requests' = requests \o o.sent
        /\ ToolFinish(
              IF o.out.kind = "raise" THEN o.out
              ELSE Return([query |-> [latitude |-> latitude, longitude |-> longitude,
                                      radius |-> radius],
                           categories |-> results_by_category,
                           total_count |-> nearby_total(results_by_category,
                                                        DOMAIN results_by_category)]))
        /\ UNCHANGED <<clientVars, ctxVars, lifespanVars>>

(***************************************************************************)
(* SpecSearch: one invocation of find_nearby_places while the server       *)
(* serves.                                                                 *)
(***************************************************************************)
MaxPlaces == 3        \* length of one Overpass answer to find_nearby_places

SearchLatitudes == {0, Degrees(90), Degrees(-90)}
SearchLimits == {0, 1, 2, 20}
SearchCategories == {<<>>, <<"amenity">>, <<"shop", "amenity">>}

\* the nodes Overpass may answer with; a node can carry several of the keys
Places ==
    {[type |-> "node", id |-> 1, lat |-> 10, lon |-> 20,
      tags |-> [amenity |-> "a", name |-> "Corner"]],
     [type |-> "node", id |-> 2, lat |-> 10, lon |-> 20, tags |-> [amenity |-> "a", shop |-> "b"]],
     [type |-> "node", id |-> 3, lat |-> 10, lon |-> 20, tags |-> [shop |-> "b"]],
     [type |-> "node", id |-> 4]}

SearchResponses ==
    Failures
    \cup {[status |-> 200, body |-> NoBody]}
    \cup {[status |-> 200, body |-> [elements |-> places]] : places \in SeqsUpTo(Places, MaxPlaces)}

NextSearch ==
    /\ pc = "idle"
    /\ \E latitude \in SearchLatitudes, categories \in SearchCategories,
          limit \in SearchLimits, resp \in SearchResponses :
          find_nearby_places(latitude, 0, 1000, categories, limit, resp)

SpecSearch == InitServing /\ [][NextSearch]_vars

SearchDone == tool = "find_nearby_places" /\ pc = "done" /\ ret.kind = "return"

\* the entries of the result, as (category, subcategory, position) triples
NearbyEntries(categories) ==
    {t \in {"amenity", "shop", "tourism", "leisure"} \X {"a", "b"} \X (1..2 * MaxPlaces + 2) :
        /\ t[1] \in DOMAIN categories
        /\ t[2] \in DOMAIN categories[t[1]]
        /\ t[3] <= Len(categories[t[1]][t[2]])}

\* C17: in the result of find_nearby_places total_count is the number of
\* entries of all the category/subcategory lists, and it does not exceed the
\* limit given by the caller.
C17_LimitBoundsTotal ==
    SearchDone =>
        /\ ret.value.total_count = Cardinality(NearbyEntries(ret.value.categories))
        /\ ret.value.total_count <= args.limit

\* C20: an invocation of find_nearby_places, explore_area or
\* analyze_neighborhood whose center latitude is +90 or -90 fails, and no
\* bounding-box query is sent upstream for it.
C20_PoleRejected ==
    (/\ tool \in {"find_nearby_places", "explore_area", "analyze_neighborhood"}
     /\ args.latitude \in {Degrees(90), Degrees(-90)})
        => /\ pc = "done" => ret.kind = "raise"
           /\ \A k \in DOMAIN requests : requests[k].service # "overpass"

\* the number of steps in the legs of a route
StepCount(route) ==
    IF "legs" \in DOMAIN route
    THEN Sum([k \in DOMAIN route.legs |->
                 IF "steps" \in DOMAIN route.legs[k] THEN Len(route.legs[k].steps) ELSE 0])
    ELSE 0

\* C18: when the router answered successfully, get_route_directions raises
\* 'No route found' if the answer has no candidate (routes absent or
\* empty), and otherwise returns the distance, duration, geometry and
\* directions of the first candidate.
C18_FirstCandidate ==
    (DirectionsDone /\ requests[1].status = 200) =>
        LET route_data == locals.route_data
        IN  IF "routes" \notin DOMAIN route_data \/ route_data.routes = <<>>
            THEN ret = Raise("No route found")
            ELSE /\ ret.kind = "return"
                 /\ ret.value.summary.distance = GetNum(route_data.routes[1], "distance")
                 /\ ret.value.summary.duration = GetNum(route_data.routes[1], "duration")
                 /\ ret.value.geometry = Get(route_data.routes[1], "geometry", None)
                 /\ Len(ret.value.directions) = StepCount(route_data.routes[1])

C18_Witness ==
    /\ DirectionsDone
    /\ requests[1].status = 200
    /\ "routes" \in DOMAIN locals.route_data
    /\ Len(locals.route_data.routes) = 2
    /\ ret.kind = "return"
    /\ ret.value.geometry = "first"
    /\ ret.value.summary.duration = Some(60)

\* C19: every upstream request sent by a client operation carries the
\* identifying User-Agent header.
C19_ClientHeader ==
    \A k \in DOMAIN requests :
        requests[k].op \in {"geocode", "reverse_geocode", "get_route", "get_nearby_pois",
                            "search_features_by_category"}
            => UserAgent \in requests[k].headers

(***************************************************************************)
(* search_category (tools/search.py 91-173)                                *)
(***************************************************************************)
\* lines 130-158: the results, in upstream order
RECURSIVE category_results(_, _)
category_results(features, category) ==
    IF features = <<>> THEN <<>>
    ELSE LET feature == Head(features)
             tags == Get(feature, "tags", EmptyDict)
             coords == feature_coords(feature)
         IN  (IF DOMAIN coords # {}
              THEN <<[id |-> Get(feature, "id", None),
                      type |-> Get(feature, "type", None),
                      name |-> Get(tags, "name", "Unnamed"),
                      coordinates |-> coords,
                      category |-> category,
                      subcategory |-> Get(tags, category, None),
                      tags |-> tags]>>
              ELSE <<>>)
             \o category_results(Tail(features), category)

search_category(category, min_latitude, min_longitude, max_latitude, max_longitude, subcategories, resp) ==
    LET bbox == <<min_longitude, min_latitude, max_longitude, max_latitude>>
        o == search_features_by_category(bbox, category, subcategories, resp)
        features == o.out.value
        results == category_results(features, category)
    IN  /\ ToolStart("search_category",
                     [category |-> category, min_latitude |-> min_latitude,
                      min_longitude |-> min_longitude, max_latitude |-> max_latitude,
                      max_longitude |-> max_longitude, subcategories |-> subcategories],
                     IF o.out.kind = "return" THEN [features |-> features] ELSE NoLocals)
        /\ requests' = requests \o o.sent
        /\ ToolFinish(
              IF o.out.kind = "raise" THEN o.out
              ELSE Return([query |-> [category |-> category, subcategories |-> subcategories,
                                      bbox |-> [min_latitude |-> min_latitude,
                                                min_longitude |-> min_longitude,
                                                max_latitude |-> max_latitude,
                                                max_longitude |-> max_longitude]],
                           results |-> results,
                           count |-> Len(results)]))
        /\ UNCHANGED <<clientVars, ctxVars, lifespanVars>>

(***************************************************************************)
(* SpecSingle: one invocation of a tool that makes a single client call,   *)
(* while the server serves.                                                *)
(***************************************************************************)
NextSingle ==
    \/ pc = "idle" /\ \E resp \in GeocodeResponses : geocode_address("q", resp)
    \/ pc = "idle" /\ \E resp \in ReverseResponses : reverse_geocode(0, 0, resp)
    \/ /\ pc = "idle"
       /\ \E mode \in Modes, resp \in DirectionsResponses :
             get_route_directions(mode, TRUE, "simplified", FALSE, resp)
    \/ /\ pc = "idle"
       /\ \E limit \in SearchLimits, resp \in SearchResponses :
             find_nearby_places(0, 0, 1000, <<>>, limit, resp)
    \/ /\ pc = "idle"
       /\ \E subcategories \in {<<>>, <<"a">>}, resp \in ExploreResponses("amenity", MaxFeatures) :
             search_category("amenity", 0, 0, 100, 100, subcategories, resp)

SpecSingle == InitServing /\ [][NextSingle]_vars

\* the client operation behind each single-call tool
SingleCallOp ==
    [geocode_address |-> "geocode", reverse_geocode |-> "reverse_geocode",
     get_route_directions |-> "get_route", find_nearby_places |-> "get_nearby_pois",
     search_category |-> "search_features_by_category"]

\* C21: an invocation of a single-call tool makes its client operation send
\* exactly one upstream request (no retry), and when that request is not
\* answered with success the invocation fails instead of returning a result.
C21_OneRequestNoDefault ==
    [][tool' \in DOMAIN SingleCallOp =>
          /\ Len(requests') = Len(requests) + 1
          /\ requests'[Len(requests')].op = SingleCallOp[tool']
          /\ requests'[Len(requests')].status # 200 => ret'.kind = "raise"
          /\ requests'[Len(requests')].status = 200
                => (ret'.kind = "return" \/ ret' = Raise("No route found"))]_vars

C21_Witness ==
    /\ tool = "search_category"
    /\ pc = "done"
    /\ Len(requests) = 1
    /\ requests[1].status = 500
    /\ ret = Raise("Failed to search features by category")

CategoryDone == tool = "search_category" /\ pc = "done" /\ ret.kind = "return"

\* C22: every result of search_category has coordinates with a latitude and
\* a longitude that are not null, and count is the number of results.
C22_CategoryCoordinates ==
    CategoryDone =>
        /\ ret.value.count = Len(ret.value.results)
        /\ \A k \in DOMAIN ret.value.results :
              LET coords == ret.value.results[k].coordinates
              IN  /\ DOMAIN coords = {"latitude", "longitude"}
                  /\ coords.latitude # Null
                  /\ coords.longitude # Null

(***************************************************************************)
(* find_schools_nearby, find_ev_charging_stations (tools/extras.py)        *)
(* Each posts one Overpass query on a session of its own.  A Python float  *)
(* is [nan, v]: not-a-number, or the number v.                             *)
(***************************************************************************)
NaN == [nan |-> TRUE, v |-> 0]
Float(v) == [nan |-> FALSE, v |-> v]

\* a < b on floats: false when either is not a number
FloatLess(a, b) == ~a.nan /\ ~b.nan /\ a.v < b.v

\* float(s) for the values of the maxpower tag: a number, not-a-number for
\* the string "nan", or ValueError (Null here)
parse_float(str) ==
    IF str = "11" THEN Some(Float(11))
    ELSE IF str = "22" THEN Some(Float(22))
    ELSE IF str = "50" THEN Some(Float(50))
    ELSE IF str = "nan" THEN Some(NaN)
    ELSE Null

\* key.split(":", 1)[1] for a key that starts with "socket:", else None
socket_type(key) ==
    IF key = "socket:type2" THEN "type2"
    ELSE IF key = "socket:chademo" THEN "chademo"
    ELSE None

\* value.isdigit()
isdigit(value) == value \in {"1", "2"}

\* lines 238-245: the connectors of a station, one per socket:* tag
RECURSIVE station_connectors(_, _)
station_connectors(tags, keys) ==
    IF keys = {} THEN <<>>
    ELSE LET key == CHOOSE k \in keys : TRUE
         IN  (IF socket_type(key) # None
              THEN <<[type |-> socket_type(key),
                      count |-> IF isdigit(tags[key]) THEN tags[key] ELSE 1]>>
              ELSE <<>>)
             \o station_connectors(tags, keys \ {key})

\* lines 248-255
has_matching_connector(connectors, connector_types) ==
    \E k \in DOMAIN connectors :
        \E j \in DOMAIN connector_types : connectors[k].type = connector_types[j]

\* lines 258-263
station_power(tags) ==
    IF "maxpower" \in DOMAIN tags THEN parse_float(tags.maxpower) ELSE Null

\* line 266: min_power is not None and (power is None or power < min_power)
power_excluded(power, min_power) ==
    min_power # Null /\ (power = Null \/ FloatLess(power[1], min_power[1]))

address(tags) ==
    [street |-> Get(tags, "addr:street", ""),
     housenumber |-> Get(tags, "addr:housenumber", ""),
     city |-> Get(tags, "addr:city", ""),
     postcode |-> Get(tags, "addr:postcode", "")]

\* lines 216-290: the stations kept, in upstream order, or the TypeError that
\* haversine raises on a None coordinate
RECURSIVE ev_results(_, _, _, _, _)
ev_results(stations, latitude, longitude, connector_types, min_power) ==
    IF stations = <<>> THEN [ok |-> TRUE, results |-> <<>>]
    ELSE LET station == Head(stations)
             tags == Get(station, "tags", EmptyDict)
             coords == feature_coords(station)
             connectors == station_connectors(tags, DOMAIN tags)
             power == station_power(tags)
             rest == ev_results(Tail(stations), latitude, longitude, connector_types, min_power)
         IN  IF DOMAIN coords = {} THEN rest
             ELSE IF connector_types # <<>> /\ ~has_matching_connector(connectors, connector_types)
             THEN rest
             ELSE IF power_excluded(power, min_power) THEN rest
             ELSE IF coords.latitude = Null \/ coords.longitude = Null
             THEN [ok |-> FALSE, error |-> "TypeError"]
             ELSE IF ~rest.ok THEN rest
             ELSE LET distance == haversine(latitude, longitude,
                                            coords.latitude[1], coords.longitude[1])
                  IN  [ok |-> TRUE,
                       results |->
                           <<[id |-> Get(station, "id", None),
                              name |-> Get(tags, "name", "Unnamed Charging Station"),
                              operator |-> Get(tags, "operator", "Unknown"),
                              coordinates |-> coords,
                              distance |-> (distance + 5) \div 10,
                              connectors |-> connectors,
                              capacity |-> Get(tags, "capacity", "Unknown"),
                              power |-> power,
                              fee |-> Get(tags, "fee", "Unknown"),
                              access |-> Get(tags, "access", "public"),
                              opening_hours |-> Get(tags, "opening_hours", "Unknown"),
                              address |-> address(tags),
                              tags |-> tags]>> \o rest.results]

\* line 93: education_levels and school_type and school_type not in education_levels
school_excluded(school_type, education_levels) ==
    /\ education_levels # <<>>
    /\ school_type # ""
    /\ \A k \in DOMAIN education_levels : education_levels[k] # school_type

\* lines 87-130
RECURSIVE school_results(_, _, _, _)
school_results(schools, latitude, longitude, education_levels) ==
    IF schools = <<>> THEN [ok |-> TRUE, results |-> <<>>]
    ELSE LET school == Head(schools)
             tags == Get(school, "tags", EmptyDict)
             school_type == Get(tags, "school", "")
             coords == feature_coords(school)
             rest == school_results(Tail(schools), latitude, longitude, education_levels)
         IN  IF school_excluded(school_type, education_levels) THEN rest
             ELSE IF DOMAIN coords = {} THEN rest
             ELSE IF coords.latitude = Null \/ coords.longitude = Null
             THEN [ok |-> FALSE, error |-> "TypeError"]
             ELSE IF ~rest.ok THEN rest
             ELSE LET distance == haversine(latitude, longitude,
                                            coords.latitude[1], coords.longitude[1])
                  IN  [ok |-> TRUE,
                       results |->
                           <<[id |-> Get(school, "id", None),
                              name |-> Get(tags, "name", "Unnamed School"),
                              amenity_type |-> Get(tags, "amenity", ""),
                              school_type |-> school_type,
                              education_level |-> Get(tags, "isced", ""),
                              coordinates |-> coords,
                              distance |-> (distance + 5) \div 10,
                              address |-> address(tags),
                              tags |-> tags]>> \o rest.results]

\* results.sort(key=lambda x: x["distance"])
sort_by_distance(results) ==
    Items(SortByKey([k \in 1..Len(results) |->
                        [key |-> [inf |-> FALSE, v |-> results[k].distance],
                         item |-> results[k]]]))

\* the tool starts and opens its session (lines 78 and 207)
extras_start(t, a) ==
    /\ ToolStart(t, a, [session |-> Len(sessions) + 1, elements |-> <<>>])
    /\ sessions' = NewSession
    /\ ToolGoto("post")
    /\ UNCHANGED <<session, cache, requests, ctxVars, lifespanVars>>

\* the query is posted on the private session, the session is closed, and
\* the tool ends with outcome out(elements) of the elements answered
extras_post(t, resp, failure) ==
    Elements(SessionRequest(locals.session,
                            [op |-> t, service |-> "overpass", session |-> locals.session,
                             headers |-> {}, mode |-> None,
                             params |-> [bbox |-> bounding_box(args.latitude, args.longitude,
                                                               args.radius)],
                             status |-> 0],
                            resp, failure))

find_schools_nearby_start(latitude, longitude, radius, education_levels) ==
    extras_start("find_schools_nearby",
                 [latitude |-> latitude, longitude |-> longitude, radius |-> radius,
                  education_levels |-> education_levels])

\* lines 78-144
find_schools_nearby_post(resp) ==
    LET o == extras_post("find_schools_nearby", resp, "Failed to find schools")
        r == school_results(o.out.value, args.latitude, args.longitude, args.education_levels)
        results == sort_by_distance(r.results)
    IN  /\ tool = "find_schools_nearby" /\ pc = "post"
        /\ requests' = requests \o o.sent
        /\ sessions' = [sessions EXCEPT ![locals.session] = "closed"]
        /\ locals' = IF o.out.kind = "return"
                     THEN [locals EXCEPT !.elements = o.out.value]
                     ELSE locals
        /\ ToolFinish(
              IF o.out.kind = "raise" THEN o.out
              ELSE IF ~r.ok THEN Raise(r.error)
              ELSE Return([query |-> args, schools |-> results, count |-> Len(results)]))
        /\ UNCHANGED <<session, cache, ctxVars, lifespanVars, tool, args, i>>

find_ev_charging_stations_start(latitude, longitude, radius, connector_types, min_power) ==
    extras_start("find_ev_charging_stations",
                 [latitude |-> latitude, longitude |-> longitude, radius |-> radius,
                  connector_types |-> connector_types, min_power |-> min_power])

\* lines 207-305
find_ev_charging_stations_post(resp) ==
    LET o == extras_post("find_ev_charging_stations", resp,
                         "Failed to find charging stations")
        r == ev_results(o.out.value, args.latitude, args.longitude, args.connector_types,
                        args.min_power)
        results == sort_by_distance(r.results)
    IN  /\ tool = "find_ev_charging_stations" /\ pc = "post"
        /\ requests' = requests \o o.sent
        /\ sessions' = [sessions EXCEPT ![locals.session] = "closed"]
        /\ locals' = IF o.out.kind = "return"
                     THEN [locals EXCEPT !.elements = o.out.value]
                     ELSE locals
        /\ ToolFinish(
              IF o.out.kind = "raise" THEN o.out
              ELSE IF ~r.ok THEN Raise(r.error)
              ELSE Return([query |-> args, stations |-> results, count |-> Len(results)]))
        /\ UNCHANGED <<session, cache, ctxVars, lifespanVars, tool, args, i>>

(***************************************************************************)
(* SpecExtras: one invocation of find_schools_nearby or of                 *)
(* find_ev_charging_stations while the server serves.                      *)
(***************************************************************************)
Station(id, lat, tags) == [type |-> "node", id |-> id, lat |-> lat, lon |-> 0, tags |-> tags]

Stations ==
    {Station(1, 20, [amenity |-> "charging_station", maxpower |-> "50"]
                    @@ ("socket:type2" :> "2")),
     Station(2, 10, [amenity |-> "charging_station", maxpower |-> "11"]
                    @@ ("socket:chademo" :> "yes")),
     Station(3, 10, [amenity |-> "charging_station", maxpower |-> "22 kW"]),
     Station(4, 10, [amenity |-> "charging_station", maxpower |-> "nan"]
                    @@ ("socket:type2" :> "1")),
     Station(5, 10, [amenity |-> "charging_station"]),
     [type |-> "way", id |-> 6, tags |-> [amenity |-> "charging_station"]],
     [type |-> "node", id |-> 7, tags |-> [amenity |-> "charging_station"]]}

Schools ==
    {Station(1, 20, [amenity |-> "school", school |-> "primary"]),
     Station(2, 10, [amenity |-> "school", school |-> "secondary"]),
     Station(3, 10, [amenity |-> "university"]),
     [type |-> "way", id |-> 4, tags |-> [amenity |-> "school", school |-> "primary"]]}

ExtrasResponses(elements) ==
    Failures \cup {[status |-> 200, body |-> [elements |-> es]] : es \in SeqsUpTo(elements, MaxFeatures)}

NextExtras ==
    \/ /\ pc = "idle"
       /\ \E education_levels \in {<<>>, <<"primary">>} :
             find_schools_nearby_start(0, 0, 2000, education_levels)
    \/ \E resp \in ExtrasResponses(Schools) : find_schools_nearby_post(resp)
    \/ /\ pc = "idle"
       /\ \E connector_types \in {<<>>, <<"type2">>}, min_power \in {Null, Some(Float(22))} :
             find_ev_charging_stations_start(0, 0, 5000, connector_types, min_power)
    \/ \E resp \in ExtrasResponses(Stations) : find_ev_charging_stations_post(resp)

SpecExtras == InitServing /\ [][NextExtras]_vars

StationsDone == tool = "find_ev_charging_stations" /\ pc = "done" /\ ret.kind = "return"

\* the tag key of a connector type
SocketKey(connector_type) ==
    IF connector_type = "type2" THEN "socket:type2" ELSE "socket:chademo"

\* the element is a node with both coordinates, or carries a center
HasCoordinates(element) ==
    \/ element.type = "node" /\ "lat" \in DOMAIN element /\ "lon" \in DOMAIN element
    \/ element.type # "node" /\ "center" \in DOMAIN element

\* C23: of the stations find_ev_charging_stations returns, each has a power
\* that is a number >= min_power when min_power is given, and a tag
\* socket:<type> with <type> in connector_types when connector_types is
\* given; with neither filter every station with coordinates is returned.
C23_StationFilters ==
    StationsDone =>
        LET stations == ret.value.stations
        IN  /\ args.min_power # Null
                  => \A k \in DOMAIN stations :
                        /\ stations[k].power # Null
                        /\ ~stations[k].power[1].nan
                        /\ stations[k].power[1].v >= args.min_power[1].v
            /\ args.connector_types # <<>>
                  => \A k \in DOMAIN stations :
                        \E j \in DOMAIN args.connector_types :
                            SocketKey(args.connector_types[j]) \in DOMAIN stations[k].tags
            /\ (args.min_power = Null /\ args.connector_types = <<>>)
                  => Len(stations)
                       = Cardinality({k \in DOMAIN locals.elements :
                                         HasCoordinates(locals.elements[k])})

SchoolsDone == tool = "find_schools_nearby" /\ pc = "done" /\ ret.kind = "return"

\* C24: when education_levels is given, every institution that
\* find_schools_nearby returns has a school type in education_levels.
C24_EducationLevels ==
    (SchoolsDone /\ args.education_levels # <<>>) =>
        \A k \in DOMAIN ret.value.schools :
            \E j \in DOMAIN args.education_levels :
                ret.value.schools[k].school_type = args.education_levels[j]

(***************************************************************************)
(* SpecHaversine: utils.haversine applied to two points on one meridian    *)
(* or on the equator, at most 1.5 degrees apart.                           *)
(***************************************************************************)
HaversineLatitudes == {-50000, -45, 0, 45, 50000, Degrees(1)}
HaversineLongitudes == {0, 45, Degrees(1)}

HaversineInputs ==
    {[lat1 |-> lat1, lon1 |-> lon, lat2 |-> lat2, lon2 |-> lon] :
        lat1 \in HaversineLatitudes, lat2 \in HaversineLatitudes, lon \in HaversineLongitudes}
    \cup {[lat1 |-> 0, lon1 |-> lon1, lat2 |-> 0, lon2 |-> lon2] :
            lon1 \in HaversineLongitudes, lon2 \in HaversineLongitudes}

InitHaversine ==
    /\ ClientInit
    /\ requests = <<>>
    /\ warnings = <<>>
    /\ progress = <<>>
    /\ lifespan = NoLifespan
    /\ disconnects = 0
    /\ tool = "haversine"
    /\ pc = "idle"
    /\ args \in HaversineInputs
    /\ i = 0
    /\ locals = NoLocals
    /\ ret = NoRet

ApplyHaversine ==
    /\ tool = "haversine" /\ pc = "idle"
    /\ ToolFinish(Return(haversine(args.lat1, args.lon1, args.lat2, args.lon2)))
    /\ UNCHANGED <<clientVars, requests, ctxVars, lifespanVars, tool, args, i, locals>>

NextHaversine == ApplyHaversine

SpecHaversine == InitHaversine /\ [][NextHaversine]_vars

HaversineDone == tool = "haversine" /\ pc = "done"

NextProgress ==
    \/ pc = "idle" /\ explore_area_start(0, 0, 500)
    \/ explore_area_progress
    \/ \E resp \in PlainOverpassResponses : explore_area_search(resp)
    \/ \E resp \in ReverseResponses : explore_area_reverse(resp)
    \/ explore_area_return
    \/ pc = "idle" /\ analyze_neighborhood_start(0, 0, 1000)
    \/ \E resp \in ReverseResponses : analyze_neighborhood_reverse(resp)
    \/ analyze_neighborhood_progress
    \/ analyze_neighborhood_session
    \/ \E resp \in EmptyOverpassResponses :
          /\ resp.status = 200 \/ Len(warnings) < MaxFailures
          /\ analyze_neighborhood_post(resp)
    \/ analyze_neighborhood_close
    \/ analyze_neighborhood_return

SpecProgress == InitServing /\ [][NextProgress]_vars

\* the category queries sent so far, in order
CategoryQueries ==
    SelectSeq(requests,
              LAMBDA r : r.op \in {"search_features_by_category", "analyze_neighborhood"})

\* C26: in explore_area and analyze_neighborhood the k-th category query is
\* the query of the k-th category of the fixed list; the progress events are
\* (0, total), (1, total), ... in order; the event (k, total) precedes the
\* query of category k and follows the answer to the query of category
\* k - 1; one query is sent per category whatever the earlier answers were;
\* and the result is returned after the event (total, total).
C26_ProgressOrder ==
    tool \in {"explore_area", "analyze_neighborhood"} =>
        LET names == IF tool = "explore_area" THEN explore_categories
                     ELSE neighborhood_categories
            total == Len(names)
            queries == CategoryQueries
        IN  /\ Len(queries) <= total
            /\ \A k \in DOMAIN queries : queries[k].params.category = names[k]
            /\ \A k \in DOMAIN progress : progress[k] = <<k - 1, total>>
            /\ Len(queries) <= Len(progress)
            /\ Len(progress) <= Len(queries) + 1
            /\ (pc = "done" /\ ret.kind = "return")
                  => (Len(queries) = total /\ Len(progress) = total + 1)

C26_Witness ==
    /\ tool = "analyze_neighborhood"
    /\ pc = "done"
    /\ ret.kind = "return"
    /\ Len(progress) = Len(neighborhood_categories) + 1
    /\ progress[Len(progress)] = <<10, 10>>
    /\ Len(CategoryQueries) = 10
    /\ CategoryQueries[1].status # 200
    /\ CategoryQueries[2].status = 200

(***************************************************************************)
(* SpecWalk: one invocation of analyze_neighborhood in which the last two  *)
(* categories (shopping, services) have features.                          *)
(***************************************************************************)
MaxNearby == 11       \* length of the Overpass answer for the last category

\* the k-th element of an answer: a node on the meridian of the center, at
\* 0 m ("center"), about 100 m ("near") or about 600 m ("far")
WalkFeature(k, where) ==
    [type |-> "node", id |-> k,
     lat |-> IF where = "center" THEN 0 ELSE IF where = "near" THEN 90 ELSE 540,
     lon |-> 0, tags |-> [shop |-> "a"]]

WalkLists(n) ==
    UNION {{[k \in 1..m |-> WalkFeature(k, where[k])] : where \in [1..m -> {"near", "far"}]} :
             m \in 0..n}

ShoppingLists ==
    {<<>>, <<WalkFeature(1, "near")>>, <<WalkFeature(1, "far")>>, <<WalkFeature(1, "center")>>,
     <<WalkFeature(1, "near"), WalkFeature(2, "center"), WalkFeature(3, "near")>>}

\* the answers to the query of category i + 1
WalkResponses ==
    IF i + 1 < 9 THEN {[status |-> 200, body |-> [elements |-> <<>>]]}
    ELSE IF i + 1 = 9
    THEN {[status |-> 200, body |-> [elements |-> es]] : es \in ShoppingLists}
    ELSE Failures \cup {[status |-> 200, body |-> [elements |-> es]] : es \in WalkLists(MaxNearby)}

NextWalk ==
    \/ pc = "idle" /\ analyze_neighborhood_start(0, 0, 1000)
    \/ analyze_neighborhood_reverse([status |-> 200, body |-> [display_name |-> "Main St"]])
    \/ analyze_neighborhood_progress
    \/ analyze_neighborhood_session
    \/ pc = "post" /\ \E resp \in WalkResponses : analyze_neighborhood_post(resp)
    \/ analyze_neighborhood_close
    \/ analyze_neighborhood_return

SpecWalk == InitServing /\ [][NextWalk]_vars

\* the distance reported for an element, round(distance, 1), in decimetres
ReportedDistance(element) ==
    (haversine(args.latitude, args.longitude, element.lat, element.lon) + 5) \div 10

\* the number of features within 500 m that category k found: for the last
\* category counted in the upstream answer, for the others in their entry,
\* which holds all their features
Walkable(k) ==
    LET data == ret.value.categories[k].data
    IN  IF "metrics" \notin DOMAIN data THEN 0
        ELSE IF k = Len(neighborhood_categories)
        THEN Cardinality({j \in DOMAIN locals.features :
                             ReportedDistance(locals.features[j]) <= 5000})
        ELSE Cardinality({j \in DOMAIN data.features : data.features[j].distance <= 5000})

\* C27: walkability = min(W + C, 10), W the number of all features found
\* within 500 m and C the number of categories with such a feature.
C27_Walkability ==
    NeighborhoodDone =>
        LET W == Sum([k \in DOMAIN neighborhood_categories |-> Walkable(k)])
            C == Cardinality({k \in DOMAIN neighborhood_categories : Walkable(k) > 0})
        IN  /\ \A k \in 1..Len(neighborhood_categories) - 1 :
                  "metrics" \in DOMAIN ret.value.categories[k].data
                     => ret.value.categories[k].data.count
                          = Len(ret.value.categories[k].data.features)
            /\ ret.value.scores.walkability = Min(W + C, 10)

C27_Witness ==
    /\ NeighborhoodDone
    /\ Len(requests) = 11
    /\ requests[11].status = 200
    /\ Len(locals.features) = 11
    /\ locals.features[1].lat = 540
    /\ locals.features[2].lat = 540
    /\ \A k \in 3..11 : locals.features[k].lat = 90
    /\ ret.value.categories[9].data.count = 0
    /\ ret.value.scores.walkability = 10

\* C30: in the entry of a category with count > 0, min_distance and
\* avg_distance are numbers (also when the nearest feature is at the center),
\* features holds the min(count, 10) nearest features in ascending distance,
\* ties in upstream order, and count = total_count.
C30_CategoryMetrics ==
    NeighborhoodDone =>
        \A k \in DOMAIN ret.value.categories :
            LET data == ret.value.categories[k].data
            IN  ("metrics" \in DOMAIN data /\ data.count > 0) =>
                    /\ data.metrics.min_distance # Null
                    /\ data.metrics.avg_distance # Null
                    /\ data.count = data.metrics.total_count
                    /\ Len(data.features) = Min(data.count, 10)
                    /\ \A a, b \in DOMAIN data.features :
                          a < b => \/ data.features[a].distance < data.features[b].distance
                                   \/ /\ data.features[a].distance = data.features[b].distance
                                      /\ data.features[a].id < data.features[b].id
                    /\ k = Len(neighborhood_categories) =>
                          \A j \in DOMAIN locals.features :
                              \/ \E a \in DOMAIN data.features :
                                    data.features[a].id = locals.features[j].id
                              \/ ReportedDistance(locals.features[j])
                                    >= data.features[Len(data.features)].distance

C29_EntryPerMode ==
    CommuteDone =>
        LET options == ret.value.commute_options
        IN  /\ Len(options) = Len(args.modes)
            /\ \A k \in DOMAIN args.modes :
                  Cardinality({j \in DOMAIN options : options[j].mode = args.modes[k]})
                     = Cardinality({j \in DOMAIN args.modes : args.modes[j] = args.modes[k]})
            /\ \A j \in DOMAIN options :
                  \/ {"distance_km", "duration_minutes"} \subseteq DOMAIN options[j]
                  \/ "error" \in DOMAIN options[j]

====
